---- MODULE Spec2Model ----
(***************************************************************************)
(* State-machine model of the ADGM corporate document analyzer:            *)
(*   src/src/rag.py        chunk_text_generator, ingest_sources            *)
(*   src/src/llm_utils.py  get_llm_response, _safe_extract_json,           *)
(*                         analyze_with_llm                                *)
(*   src/src/analyzer.py   analyze_file and the directory batch loop       *)
(*   src/app.py            process_uploads                                 *)
(* Texts are sequences of one-character strings, so that slicing,          *)
(* stripping, lower-casing and pattern search are computed, not assumed.   *)
(***************************************************************************)
EXTENDS Integers, Sequences, FiniteSets, TLC

VARIABLES
    ck,     \* frame of one chunk_text_generator call (rag.py)
    llm,    \* frame of one analyze_with_llm call (llm_utils.py)
    dir,    \* the data_sources directory: whether it exists, and its entries
    store,  \* the Chroma collection: a set of chunk records
    ing,    \* frame of each ingest_sources run (rag.py)
    cl,     \* frame of a classify_doc_type call made on its own (classifier.py)
    an,     \* frame of the analyze_file call in progress (analyzer.py)
    fs,     \* the outputs directory: artifact path -> content
    writes, \* which analyze_file call wrote which artifact path
    now,    \* the clock, in ticks
    batch   \* frame of the batch entry point (app.py, analyzer.py __main__)

vars == <<ck, cl, llm, dir, store, ing, an, fs, writes, now, batch>>

anVars == <<an, fs, writes, now, batch>>

ragVars == <<dir, store, ing>>

(***************************************************************************)
(* Generic helpers                                                         *)
(***************************************************************************)
Min(a, b) == IF a < b THEN a ELSE b

Max(a, b) == IF a > b THEN a ELSE b

SetMin(S) == CHOOSE x \in S : \A y \in S : x <= y

SetMax(S) == CHOOSE x \in S : \A y \in S : x >= y

\* All sequences over S of length 0..n.
SeqsUpTo(S, n) == UNION {[1..k -> S] : k \in 0..n}

\* Python slice s[a:b] with 0-based a, b already clamped to 0..Len(s).
Slice(s, a, b) == IF b <= a THEN <<>> ELSE SubSeq(s, a + 1, b)

\* str.isspace() on one character.
IsSpace(c) == c \in {" ", "\n", "\t"}

\* Number of leading whitespace characters of s.
RECURSIVE LeadingSpaces(_)
LeadingSpaces(s) ==
    IF s = <<>> \/ ~IsSpace(Head(s)) THEN 0 ELSE 1 + LeadingSpaces(Tail(s))

\* Number of trailing whitespace characters of s.
RECURSIVE TrailingSpaces(_)
TrailingSpaces(s) ==
    IF s = <<>> \/ ~IsSpace(s[Len(s)]) THEN 0
    ELSE 1 + TrailingSpaces(SubSeq(s, 1, Len(s) - 1))

\* str.strip(): drop leading and trailing whitespace.
Strip(s) ==
    LET a == LeadingSpaces(s)
    IN  IF a = Len(s) THEN <<>>
        ELSE SubSeq(s, a + 1, Len(s) - TrailingSpaces(s))

(***************************************************************************)
(* rag.py: chunk_text_generator                                            *)
(***************************************************************************)
\* Bounds of the chunker's inputs.
MaxTextLen == 3

MaxChunkSize == 3

\* Cap on the chunks one generator may emit (keeps the state space finite).
MaxChunks == 4

\* Default arguments of chunk_text_generator.
DefaultChunkSize == 1200

DefaultOverlap == 200

TextChars == {"a", " "}

Texts == SeqsUpTo(TextChars, MaxTextLen)

\* The generator's frame right after the call: start = 0, nothing emitted.
ChunkerStart(text, chunk_size, overlap) ==
    [pc |-> "loop", text |-> text, chunk_size |-> chunk_size,
     overlap |-> overlap, start |-> 0, end |-> 0, entered |-> FALSE, chunks |-> <<>>]

\* The generator's frame when it is not running.
NoChunker ==
    [pc |-> "none", text |-> <<>>, chunk_size |-> 0, overlap |-> 0,
     start |-> 0, end |-> 0, entered |-> FALSE, chunks |-> <<>>]

\* Where the window starts after one whose end is `end`.
NextStart(end, overlap) == Max(0, end - overlap)

\* One evaluation of the while test plus, when it passes, one loop body.
ChunkerStep(g) ==
    LET text_len == Len(g.text)
    IN  IF ~(g.start < text_len) THEN [g EXCEPT !.pc = "done"]
        ELSE LET end == Min(g.start + g.chunk_size, text_len)
                 chunk == Strip(Slice(g.text, g.start, end))
                 start == NextStart(end, g.overlap)
             IN  [g EXCEPT !.end = end,
                           !.entered = TRUE,
                           !.chunks = IF chunk # <<>> THEN Append(@, chunk) ELSE @,
                           !.start = start,
                           !.pc = IF start >= text_len THEN "done" ELSE "loop"]

\* Whether the step of g would emit (yield) a chunk.
ChunkerYields(g) == Len(ChunkerStep(g).chunks) > Len(g.chunks)

(***************************************************************************)
(* llm_utils.py: get_llm_response, _safe_extract_json, analyze_with_llm    *)
(*                                                                         *)
(* A response text is a sequence of tokens: "[", "]", "," , a prose word   *)
(* "w", a number literal "n", or a JSON object literal "obj" carrying the  *)
(* object's keys.  A key that is absent holds Absent; JSON null is "None". *)
(***************************************************************************)
Absent == "<absent>"

NoObj == [issue |-> Absent, severity |-> Absent, suggestion |-> Absent,
          section |-> Absent]

Tok(kind) == [t |-> kind, obj |-> NoObj]

ObjTok(o) == [t |-> "obj", obj |-> o]

\* dict.get(key, default) on the object o.
DictGet(o, key, default) == IF o[key] = Absent THEN default ELSE o[key]

\* A token that is a complete JSON value by itself.
IsScalarTok(tok) == tok.t \in {"obj", "n"}

\* Index after the JSON value that starts at toks[i], or 0 when none does.
RECURSIVE ParseValue(_, _), ParseRest(_, _)
ParseValue(toks, i) ==
    IF i < 1 \/ i > Len(toks) THEN 0
    ELSE IF IsScalarTok(toks[i]) THEN i + 1
    ELSE IF toks[i].t = "["
         THEN IF i + 1 <= Len(toks) /\ toks[i + 1].t = "]" THEN i + 2
              ELSE ParseRest(toks, ParseValue(toks, i + 1))
    ELSE 0

\* Index after the array whose elements so far end before toks[j], or 0.
ParseRest(toks, j) ==
    IF j < 1 \/ j > Len(toks) THEN 0
    ELSE IF toks[j].t = "]" THEN j + 1
    ELSE IF toks[j].t = "," THEN ParseRest(toks, ParseValue(toks, j + 1))
    ELSE 0

\* The elements of the array toks (known valid), from element position i on:
\* an object keeps its keys, anything else is a non-dict item.
RECURSIVE ArrayItems(_, _)
ArrayItems(toks, i) ==
    IF toks[i].t = "]" THEN <<>>
    ELSE LET j == ParseValue(toks, i)
             item == IF toks[i].t = "obj" THEN [isdict |-> TRUE, obj |-> toks[i].obj]
                     ELSE [isdict |-> FALSE, obj |-> NoObj]
         IN  <<item>> \o ArrayItems(toks, IF toks[j].t = "," THEN j + 1 ELSE j)

JsonError == [kind |-> "error", items |-> <<>>]

\* json.loads: the parsed value, or JsonError when the text is not JSON.
JsonLoads(toks) ==
    IF toks = <<>> \/ ParseValue(toks, 1) # Len(toks) + 1 THEN JsonError
    ELSE IF toks[1].t = "[" THEN [kind |-> "list", items |-> ArrayItems(toks, 2)]
    ELSE IF toks[1].t = "obj" THEN [kind |-> "dict", items |-> <<>>]
    ELSE [kind |-> "scalar", items |-> <<>>]

\* Positions of the tokens of kind k in toks.
Positions(toks, k) == {i \in 1..Len(toks) : toks[i].t = k}

\* re.search(r'(\[.*\])', DOTALL): from the first "[" to the last "]" after it.
ArraySnippet(toks) ==
    LET opens == Positions(toks, "[")
        closes == {j \in Positions(toks, "]") : opens # {} /\ j > SetMin(opens)}
    IN  IF opens = {} \/ closes = {} THEN <<>>
        ELSE SubSeq(toks, SetMin(opens), SetMax(closes))

\* re.search(r'(\{.*\})', DOTALL): from the first "{" to the last "}"; braces
\* only occur as the two ends of an object literal.
ObjectSnippet(toks) ==
    LET objs == Positions(toks, "obj")
    IN  IF objs = {} THEN <<>> ELSE SubSeq(toks, SetMin(objs), SetMax(objs))

\* _safe_extract_json: direct load, else the array snippet, else the object
\* snippet; JsonError stands for the exception it raises.
SafeExtractJson(toks) ==
    IF JsonLoads(toks) # JsonError THEN JsonLoads(toks)
    ELSE IF ArraySnippet(toks) # <<>> THEN JsonLoads(ArraySnippet(toks))
    ELSE IF ObjectSnippet(toks) # <<>> THEN JsonLoads(ObjectSnippet(toks))
    ELSE JsonError

\* The per-item normalisation of analyze_with_llm.
NormalizeItem(item) ==
    [issue |-> DictGet(item.obj, "issue", ""),
     severity |-> DictGet(item.obj, "severity", "Low"),
     suggestion |-> DictGet(item.obj, "suggestion", ""),
     section |-> Absent]

\* Whether analyze_with_llm keeps a parsed item.
KeepsItem(item) == item.isdict /\ item.obj.issue # Absent

RECURSIVE NormalizeItems(_)
NormalizeItems(items) ==
    IF items = <<>> THEN <<>>
    ELSE (IF KeepsItem(Head(items)) THEN <<NormalizeItem(Head(items))>> ELSE <<>>)
         \o NormalizeItems(Tail(items))

\* What the provider does on one call: raise, or answer with a text.
ProviderRaises == [raises |-> TRUE, text |-> <<>>]

ProviderSays(toks) == [raises |-> FALSE, text |-> toks]

\* get_llm_response: the text, or "" when anything in the call raised.
GetLlmResponse(outcome) == IF outcome.raises THEN <<>> ELSE outcome.text

ObjFull == [issue |-> "i1", severity |-> "High", suggestion |-> "s1", section |-> Absent]

ObjIssueOnly == [issue |-> "i2", severity |-> Absent, suggestion |-> Absent, section |-> Absent]

ObjNoIssue == [issue |-> Absent, severity |-> "Low", suggestion |-> "s3", section |-> Absent]

ObjOddSeverity == [issue |-> "i4", severity |-> "Critical", suggestion |-> Absent,
                   section |-> "Signatures"]

ObjNullSeverity == [issue |-> "i5", severity |-> "None", suggestion |-> "s5", section |-> Absent]

\* The response texts the provider may answer with.
ResponseTexts ==
    { <<>>,
      <<Tok("w")>>,
      <<Tok("n")>>,
      <<Tok("["), Tok("]")>>,
      <<ObjTok(ObjFull)>>,
      <<Tok("w"), ObjTok(ObjFull)>>,
      <<ObjTok(ObjFull), Tok("w"), ObjTok(ObjIssueOnly)>>,
      <<Tok("["), ObjTok(ObjFull)>>,
      <<Tok("["), ObjTok(ObjFull), Tok("]")>>,
      <<Tok("["), ObjTok(ObjIssueOnly), Tok(","), ObjTok(ObjNoIssue), Tok("]")>>,
      <<Tok("["), Tok("n"), Tok(","), ObjTok(ObjOddSeverity), Tok("]")>>,
      <<Tok("["), Tok("["), ObjTok(ObjFull), Tok("]"), Tok(","), ObjTok(ObjNullSeverity), Tok("]")>>,
      <<Tok("w"), Tok("["), ObjTok(ObjFull), Tok(","), ObjTok(ObjIssueOnly), Tok("]"), Tok("w")>>,
      <<Tok("w"), Tok("["), Tok("w"), Tok("]")>>,
      <<Tok("["), ObjTok(ObjFull), Tok("]"), Tok("w"), Tok("["), Tok("]")>> }

ProviderOutcomes == {ProviderRaises} \cup {ProviderSays(t) : t \in ResponseTexts}

\* Default of analyze_with_llm's max_retries.
DefaultMaxRetries == 2

\* Largest max_retries explored when analyze_with_llm is called directly.
MaxRetriesBound == 3

NoLlm == [pc |-> "none", prompt |-> <<>>, max_retries |-> 0, attempt |-> 0,
          calls |-> <<>>, outcomes |-> <<>>, sleeps |-> <<>>, result |-> <<>>]

\* The frame of analyze_with_llm on entry to its for loop.
LlmStart(prompt, max_retries) ==
    [NoLlm EXCEPT !.pc = "attempt", !.prompt = prompt, !.max_retries = max_retries]

\* How one call ended: "network", "empty", "unparsable" or "parsed".
OutcomeKind(outcome) ==
    IF outcome.raises THEN "network"
    ELSE IF outcome.text = <<>> THEN "empty"
    ELSE IF SafeExtractJson(outcome.text) = JsonError THEN "unparsable"
    ELSE "parsed"

\* One iteration of the for loop of analyze_with_llm, the provider answering
\* with `outcome` and the prints behaving as `stdout`.  After a provider
\* failure get_llm_response prints (line 62) and returns "": when that print
\* raises, the exception is caught at line 127, where line 128 prints: the
\* attempt is retried when that print succeeds, and the exception leaves
\* analyze_with_llm when it raises too.  After an unparsable response line 128
\* is the first print.
LlmIteration(f, outcome, stdout) ==
    LET resp_text == GetLlmResponse(outcome)
        parsed == SafeExtractJson(resp_text)
        called == [f EXCEPT !.calls = Append(@, f.prompt),
                            !.outcomes = Append(@, OutcomeKind(outcome))]
        retried == [called EXCEPT !.sleeps = Append(@, 1 + f.attempt),
                                  !.attempt = f.attempt + 1,
                                  !.pc = IF f.attempt + 1 < f.max_retries + 1
                                         THEN "attempt" ELSE "returned",
                                  !.result = <<>>]
        raised == [called EXCEPT !.pc = "raised", !.result = <<>>]
    IN  IF outcome.raises
        THEN CASE stdout = "open" -> [called EXCEPT !.pc = "returned", !.result = <<>>]
               [] stdout = "flaky" -> retried
               [] stdout = "closed" -> raised
        ELSE IF resp_text = <<>> THEN [called EXCEPT !.pc = "returned", !.result = <<>>]
        ELSE IF parsed = JsonError
             THEN IF stdout = "open" THEN retried ELSE raised
        ELSE IF parsed.kind = "list"
             THEN [called EXCEPT !.pc = "returned", !.result = NormalizeItems(parsed.items)]
        ELSE [called EXCEPT !.pc = "returned", !.result = <<>>]


(***************************************************************************)
(* rag.py: file_checksum, read_pdf, read_docx, ingest_sources              *)
(*                                                                         *)
(* A directory entry is [stem, ext, isfile, bytes]: its name is stem \o    *)
(* ext, stems are numbered in the order sorted() puts the names, and bytes *)
(* identifies the file's content.                                          *)
(***************************************************************************)
\* Largest number of entries of the data directory.
MaxFiles == 2

\* max_seg of ingest_sources.
MaxSeg == 6000

\* The ingest_sources runs.
Runs == {1, 2}

Extensions == {".pdf", ".PDF", ".docx", ".txt"}

\* str.lower() on an extension.
LowerExt(ext) == IF ext = ".PDF" THEN ".pdf" ELSE ext

\* The text units (pages or paragraphs) written in a file of given bytes.
RawUnits(bytes) ==
    CASE bytes = "empty" -> << <<" ">> >>
      [] bytes = "one"   -> << <<"a", " ">> >>
      [] bytes = "two"   -> << <<>>, <<" ", "a">>, <<"a", "a">> >>

ContentIds == {"empty", "one", "two"}

\* What a directory entry can be: an unsupported file, a subdirectory with a
\* supported-looking name, an upper-case extension, or a PDF or DOCX file.
EntryShapes ==
    {[ext |-> ".txt", isfile |-> TRUE, bytes |-> "empty"],
     [ext |-> ".pdf", isfile |-> FALSE, bytes |-> "empty"],
     [ext |-> ".PDF", isfile |-> TRUE, bytes |-> "one"]}
    \cup [ext : {".pdf", ".docx"}, isfile : {TRUE}, bytes : ContentIds]

\* The entries of a directory: each stem of an entry mapped to its shape.
EntryMaps == UNION {[S -> EntryShapes] : S \in SUBSET (1..MaxFiles)}

\* The data directories: a missing one, or an existing one with its entries.
Directories ==
    {[exists |-> FALSE, entries |-> <<>>]}
    \cup {[exists |-> TRUE, entries |-> m] : m \in EntryMaps}

NoDirectory == [exists |-> FALSE, entries |-> <<>>]

\* sorted(os.listdir(data_dir)): the entries in the order of their names.
RECURSIVE SortedListing(_, _)
SortedListing(d, names) ==
    IF names = {} THEN <<>>
    ELSE LET first == CHOOSE n \in names : \A o \in names : n <= o
         IN  <<[stem |-> first, ext |-> d[first].ext, isfile |-> d[first].isfile,
                bytes |-> d[first].bytes]>>
             \o SortedListing(d, names \ {first})

\* file_checksum: the SHA-256 digest of the bytes (distinct bytes, distinct digest).
FileChecksum(bytes) == <<"sha256", bytes>>

\* The units numbered from 1 that pass `keep`, as page dictionaries.
RECURSIVE UnitsFrom(_, _, _)
UnitsFrom(units, i, docx) ==
    IF i > Len(units) THEN <<>>
    ELSE LET t == IF docx THEN Strip(units[i]) ELSE units[i]
             page == [page |-> IF docx THEN 1 ELSE i, text |-> t,
                      para_index |-> IF docx THEN i ELSE 0]
         IN  (IF Strip(units[i]) # <<>> THEN <<page>> ELSE <<>>)
             \o UnitsFrom(units, i + 1, docx)

\* read_pdf: the non-blank pages; a parser exception after `good` pages
\* returns the pages collected so far.
ReadPdf(bytes, fails, good) ==
    IF fails THEN UnitsFrom(SubSeq(RawUnits(bytes), 1, good), 1, FALSE)
    ELSE UnitsFrom(RawUnits(bytes), 1, FALSE)

\* read_docx: the stripped non-empty paragraphs; [] on a parser exception.
ReadDocx(bytes, fails) ==
    IF fails THEN <<>> ELSE UnitsFrom(RawUnits(bytes), 1, TRUE)

\* The fixed-size pieces text[i:i+MaxSeg] for i = from, from+MaxSeg, ...
RECURSIVE SegmentsFrom(_, _)
SegmentsFrom(text, from) ==
    IF from >= Len(text) THEN <<>>
    ELSE <<Slice(text, from, Min(from + MaxSeg, Len(text)))>>
         \o SegmentsFrom(text, from + MaxSeg)

\* The segments of one page text.
Segments(page_text) ==
    IF Len(page_text) > MaxSeg THEN SegmentsFrom(page_text, 0) ELSE <<page_text>>

\* clean_metadata applied to the chunk's metadata, with its id and document:
\* a para_index of None (a PDF page) is dropped.
ChunkRecord(id, chunk, fname, page, seg_idx, chunk_idx, fhash) ==
    [id |-> id, document |-> chunk, source_file |-> fname, page |-> page.page,
     para_index |-> page.para_index, segment_index |-> seg_idx,
     chunk_index |-> chunk_idx, char_count |-> Len(chunk), file_hash |-> fhash]

FileName(e) == <<e.stem, e.ext>>

NoHash == <<"sha256", "">>

NoIngest ==
    [pc |-> "idle", ingested_hashes |-> {}, listing |-> <<>>, fi |-> 1,
     fhash |-> NoHash, pages |-> <<>>, pi |-> 1, si |-> 1, g |-> NoChunker,
     total_chunks |-> 0, uuids |-> 0, after |-> {}, skipped |-> {},
     wrote |-> {}, tried |-> {}, get_failed |-> FALSE]

\* The file hashes the store's metadata lists (collection.get).
StoredHashes(st) == {c.file_hash : c \in st}

\* ingested_hashes as ingest_sources collects it: the stored hashes, or
\* nothing when collection.get raised.
CollectHashes(st, get_fails) == IF get_fails THEN {} ELSE StoredHashes(st)

\* Variant: the test consults the store as it is when the file is taken.
AlreadyIngested_Live(fhash, ingested_hashes) == fhash \in StoredHashes(store)

\* Whether ingest_sources skips a file of hash fhash as already ingested.
AlreadyIngested(fhash, ingested_hashes) == fhash \in ingested_hashes

\* Lines 100-120: the directory test (a missing directory is printed at line
\* 103 and ends the run), the client and the collection (lines 106-107, in no
\* try), the ingested hashes (lines 110-117, a failed collection.get caught),
\* the print of line 119, the listing.  No print of ingest_sources is in a
\* try, and the one try that encloses a print is left by then: a print that
\* raises ends the run.
IngestBegin(f, client_raises, get_fails, print_raises, finished) ==
    IF ~dir.exists
    THEN [f EXCEPT !.pc = IF print_raises THEN "raised" ELSE "done",
                   !.after = finished]
    ELSE IF client_raises THEN [f EXCEPT !.pc = "raised", !.after = finished]
    ELSE IF print_raises
         THEN [f EXCEPT !.pc = "raised",
                        !.ingested_hashes = CollectHashes(store, get_fails),
                        !.get_failed = get_fails,
                        !.after = finished]
    ELSE [f EXCEPT !.pc = "files",
                   !.ingested_hashes = CollectHashes(store, get_fails),
                   !.get_failed = get_fails,
                   !.listing = SortedListing(dir.entries, DOMAIN dir.entries),
                   !.after = finished]

\* The frame positioned on the first segment of page pi of the current file;
\* when the pages are exhausted, line 166 prints and the frame is on the next
\* file, or the print raises.
EnterPage(f, pi, ingested_raises) ==
    IF pi > Len(f.pages)
    THEN IF ingested_raises THEN [f EXCEPT !.pc = "raised", !.g = NoChunker]
         ELSE [f EXCEPT !.pc = "files", !.fi = f.fi + 1, !.g = NoChunker]
    ELSE [f EXCEPT !.pc = "chunks", !.pi = pi, !.si = 1,
                   !.g = ChunkerStart(Segments(f.pages[pi].text)[1],
                                      DefaultChunkSize, DefaultOverlap)]

\* Lines 122-138 for the entry at fi: the skips, the checksum, the reader.
\* print_raises is the outcome of the print the entry reaches first: line 127
\* for an unsupported file, line 132 for a skipped one, line 41 or 55 inside
\* read_pdf or read_docx after a parser exception; ingested_raises is that of
\* line 166, reached here by a file without a page.
IngestEntry(f, hash_raises, read_fails, good, print_raises, ingested_raises) ==
    LET e == f.listing[f.fi]
        fhash == FileChecksum(e.bytes)
        next == [f EXCEPT !.fi = f.fi + 1]
        raised == [f EXCEPT !.pc = "raised"]
    IN  IF ~e.isfile THEN next
        ELSE IF LowerExt(e.ext) \notin {".pdf", ".docx"}
             THEN IF print_raises THEN raised ELSE next
        ELSE IF hash_raises THEN raised
        ELSE IF AlreadyIngested(fhash, f.ingested_hashes)
             THEN IF print_raises
                  THEN [raised EXCEPT !.fhash = fhash, !.skipped = @ \cup {f.fi}]
                  ELSE [next EXCEPT !.fhash = fhash, !.skipped = @ \cup {f.fi}]
        ELSE IF read_fails /\ print_raises
             THEN [raised EXCEPT !.fhash = fhash, !.tried = @ \cup {f.fi}]
        ELSE LET pages == IF LowerExt(e.ext) = ".pdf"
                          THEN ReadPdf(e.bytes, read_fails, good)
                          ELSE ReadDocx(e.bytes, read_fails)
             IN  EnterPage([f EXCEPT !.fhash = fhash, !.pages = pages,
                                     !.tried = @ \cup {f.fi}], 1, ingested_raises)

\* After the generator of the current segment is exhausted: the next segment,
\* else the next page, else the next file.
AfterSegment(f, ingested_raises) ==
    LET segs == Segments(f.pages[f.pi].text)
    IN  IF f.si < Len(segs)
        THEN [f EXCEPT !.si = f.si + 1,
                       !.g = ChunkerStart(segs[f.si + 1], DefaultChunkSize, DefaultOverlap)]
        ELSE EnterPage(f, f.pi + 1, ingested_raises)

(***************************************************************************)
(* Character-level text operations used by analyzer.py and classifier.py  *)
(***************************************************************************)
UpperCase ==
    <<"A", "B", "C", "D", "E", "F", "G", "H", "I", "J", "K", "L", "M",
      "N", "O", "P", "Q", "R", "S", "T", "U", "V", "W", "X", "Y", "Z">>

LowerCase ==
    <<"a", "b", "c", "d", "e", "f", "g", "h", "i", "j", "k", "l", "m",
      "n", "o", "p", "q", "r", "s", "t", "u", "v", "w", "x", "y", "z">>

Digits == {"0", "1", "2", "3", "4", "5", "6", "7", "8", "9"}

Range(f) == {f[i] : i \in DOMAIN f}

\* The lower-case letter of every upper-case letter.
LowerOf ==
    [c \in Range(UpperCase) |-> LowerCase[CHOOSE i \in 1..26 : UpperCase[i] = c]]

\* str.lower() on one character.
LowerChar(c) == IF c \in DOMAIN LowerOf THEN LowerOf[c] ELSE c

\* str.lower().
RECURSIVE Lower(_)
Lower(s) == IF s = <<>> THEN <<>> ELSE <<LowerChar(Head(s))>> \o Lower(Tail(s))

\* The characters of the regular-expression class \w.
WordChars == Range(UpperCase) \cup Range(LowerCase) \cup Digits \cup {"_"}

IsWordChar(c) == c \in WordChars

\* Whether w occurs in s starting at position i (1-based).
StartsAt(s, i, w) ==
    /\ i >= 1
    /\ i + Len(w) - 1 <= Len(s)
    /\ \A k \in 1..Len(w) : s[i + k - 1] = w[k]

\* str.startswith and str.endswith.
StartsWith(s, w) == StartsAt(s, 1, w)

EndsWith(s, w) == StartsAt(s, Len(s) - Len(w) + 1, w)

\* The substring test `w in s`.
Contains(s, w) == \E i \in 1..(Len(s) + 1) : StartsAt(s, i, w)

\* The regular-expression assertion \b between s[i-1] and s[i].
WordBoundary(s, i) ==
    (i > 1 /\ i - 1 <= Len(s) /\ IsWordChar(s[i - 1]))
        # (i >= 1 /\ i <= Len(s) /\ IsWordChar(s[i]))

\* Whether \bw\b matches with w starting at position i.
WordAt(s, i, w) ==
    StartsAt(s, i, w) /\ WordBoundary(s, i) /\ WordBoundary(s, i + Len(w))

\* sep.join(parts).
RECURSIVE Join(_, _)
Join(parts, sep) ==
    IF parts = <<>> THEN <<>>
    ELSE IF Len(parts) = 1 THEN parts[1]
    ELSE parts[1] \o sep \o Join(Tail(parts), sep)

(***************************************************************************)
(* analyzer.py: the detectors' patterns (lines 28-32)                      *)
(***************************************************************************)
\* SIGNATURE_REGEX: each word must be followed by ':' or whitespace.
SignatureWords ==
    <<
      <<"s", "i", "g", "n", "e", "d">>,
      <<"s", "i", "g", "n", "a", "t", "u", "r", "e">>,
      <<"s", "i", "g">>
    >>

\* SIGNATURE_REGEX.search(text) is not None.
SignatureSearch(text) ==
    \E i \in 1..Len(text), k \in 1..Len(SignatureWords) :
        LET after == i + Len(SignatureWords[k])
        IN  /\ StartsAt(text, i, SignatureWords[k])
            /\ after <= Len(text)
            /\ (text[after] = ":" \/ IsSpace(text[after]))
\* NON_ADGM_JURIS_REGEX: the alternatives, in the pattern's order.
NonAdgmTerms ==
    <<
      <<"u", "n", "i", "t", "e", "d", " ", "k", "i", "n", "g", "d", "o", "m">>,
      <<"u", "k">>,
      <<"e", "n", "g", "l", "a", "n", "d">>,
      <<"u", "s", "a">>,
      <<"u", "n", "i", "t", "e", "d", " ", "s", "t", "a", "t", "e", "s">>,
      <<"f", "e", "d", "e", "r", "a", "l", " ", "c", "o", "u", "r", "t">>,
      <<"d", "u", "b", "a", "i", " ", "i", "n", "t", "e", "r", "n", "a", "t", "i", "o", "n", "a", "l", " ", "f", "i", "n", "a", "n", "c", "i", "a", "l", " ", "c", "e", "n", "t", "r", "e">>,
      <<"d", "i", "f", "c">>
    >>

\* The alternatives of terms that match as \bterm\b at position i.
TermsAt(text, i, terms) == {k \in 1..Len(terms) : WordAt(text, i, terms[k])}

\* NON_ADGM_JURIS_REGEX.search(text).group(0): the leftmost match, the first
\* alternative that matches there; <<>> when there is no match.
NonAdgmSearch(text) ==
    LET hits == {i \in 1..Len(text) : TermsAt(text, i, NonAdgmTerms) # {}}
    IN  IF hits = {} THEN <<>>
        ELSE NonAdgmTerms[SetMin(TermsAt(text, SetMin(hits), NonAdgmTerms))]
\* AMBIGUOUS_REGEX: the strings its alternatives can match (u and r optional).
AmbiguousTerms ==
    <<
      <<"m", "a", "y">>,
      <<"b", "e", "s", "t", " ", "e", "n", "d", "e", "a", "v", "o", "u", "r", "s">>,
      <<"b", "e", "s", "t", " ", "e", "n", "d", "e", "a", "v", "o", "r", "s">>,
      <<"b", "e", "s", "t", " ", "e", "n", "d", "e", "a", "v", "o", "u", "s">>,
      <<"b", "e", "s", "t", " ", "e", "n", "d", "e", "a", "v", "o", "s">>,
      <<"b", "e", "s", "t", " ", "e", "f", "f", "o", "r", "t", "s">>,
      <<"e", "n", "d", "e", "a", "v", "o", "u", "r", " ", "t", "o">>,
      <<"c", "o", "u", "l", "d">>
    >>

\* AMBIGUOUS_REGEX.search(text) is not None.
AmbiguousSearch(text) ==
    \E i \in 1..Len(text) : TermsAt(text, i, AmbiguousTerms) # {}
\* SINGLE_SIGNATORY_REGEX: the leading count words.
SingularTerms ==
    <<
      <<"o", "n", "e">>,
      <<"1">>
    >>
\* SINGLE_SIGNATORY_REGEX: the trailing alternatives.
SignatoryTerms ==
    <<
      <<"a", "u", "t", "h", "o", "r", "i", "z", "e", "d", " ", "s", "i", "g", "n", "a", "t", "o", "r">>,
      <<"a", "u", "t", "h", "o", "r", "i", "z", "e", "d", " ", "s", "i", "g", "n", "a", "t", "o", "r", "y">>,
      <<"s", "i", "g", "n", "a", "t", "o", "r", "y">>
    >>

\* SINGLE_SIGNATORY_REGEX.search(text) is not None: a count word, then any
\* characters but a newline, then a signatory term ending at a word boundary.
SingleSignatorySearch(text) ==
    \E i \in 1..Len(text), a \in 1..Len(SingularTerms) :
        /\ WordAt(text, i, SingularTerms[a])
        /\ \E j \in (i + Len(SingularTerms[a]))..Len(text), b \in 1..Len(SignatoryTerms) :
              /\ StartsAt(text, j, SignatoryTerms[b])
              /\ WordBoundary(text, j + Len(SignatoryTerms[b]))
              /\ \A k \in (i + Len(SingularTerms[a]))..(j - 1) : text[k] # "\n"

AllowedNameChars ==
    Range(UpperCase) \cup Range(LowerCase) \cup Digits \cup {"_", ".", "-"}

\* Cap of _sanitize_name on the length of the name.
SafeNameCap == 120

\* _sanitize_name: characters outside [A-Za-z0-9_.-] become "_", at most
\* SafeNameCap characters are kept.
RECURSIVE SafeChars(_)
SafeChars(name) ==
    IF name = <<>> THEN <<>>
    ELSE <<IF Head(name) \in AllowedNameChars THEN Head(name) ELSE "_">>
         \o SafeChars(Tail(name))

SanitizeName(name_noext) ==
    LET safe == SafeChars(name_noext)
    IN  SubSeq(safe, 1, Min(Len(safe), SafeNameCap))

\* os.path.splitext(basename)[0]: the name up to its last dot, unless only
\* dots precede that dot.
SplitExtRoot(basename) ==
    LET dots == {i \in 1..Len(basename) : basename[i] = "."}
        last == SetMax(dots)
    IN  IF dots = {} \/ \A i \in 1..(last - 1) : basename[i] = "." THEN basename
        ELSE SubSeq(basename, 1, last - 1)

(***************************************************************************)
(* classifier.py: DOC_TYPE_KEYWORDS and classify_doc_type                  *)
(* Confidences are in hundredths (0.33 is 33).                             *)
(***************************************************************************)
\* DOC_TYPE_KEYWORDS, in insertion order: the type's name, the name's
\* characters, and its keyword phrases.
DocTypeKeywords ==
    <<[name |-> "Articles of Association",
       chars |-> <<"A", "r", "t", "i", "c", "l", "e", "s", " ", "o", "f", " ", "A", "s", "s", "o", "c", "i", "a", "t", "i", "o", "n">>,
       keywords |-> <<
          <<"a", "r", "t", "i", "c", "l", "e", "s", " ", "o", "f", " ", "a", "s", "s", "o", "c", "i", "a", "t", "i", "o", "n">>,
          <<"a", "o", "a">>,
          <<"c", "o", "m", "p", "a", "n", "y", " ", "a", "r", "t", "i", "c", "l", "e", "s">>>>],
      [name |-> "Memorandum of Association",
       chars |-> <<"M", "e", "m", "o", "r", "a", "n", "d", "u", "m", " ", "o", "f", " ", "A", "s", "s", "o", "c", "i", "a", "t", "i", "o", "n">>,
       keywords |-> <<
          <<"m", "e", "m", "o", "r", "a", "n", "d", "u", "m", " ", "o", "f", " ", "a", "s", "s", "o", "c", "i", "a", "t", "i", "o", "n">>,
          <<"m", "o", "a">>,
          <<"m", "e", "m", "o", "r", "a", "n", "d", "u", "m">>>>],
      [name |-> "UBO Declaration Form",
       chars |-> <<"U", "B", "O", " ", "D", "e", "c", "l", "a", "r", "a", "t", "i", "o", "n", " ", "F", "o", "r", "m">>,
       keywords |-> <<
          <<"u", "l", "t", "i", "m", "a", "t", "e", " ", "b", "e", "n", "e", "f", "i", "c", "i", "a", "l", " ", "o", "w", "n", "e", "r">>,
          <<"u", "b", "o", " ", "d", "e", "c", "l", "a", "r", "a", "t", "i", "o", "n">>,
          <<"u", "b", "o", " ", "f", "o", "r", "m">>>>],
      [name |-> "Register of Members and Directors",
       chars |-> <<"R", "e", "g", "i", "s", "t", "e", "r", " ", "o", "f", " ", "M", "e", "m", "b", "e", "r", "s", " ", "a", "n", "d", " ", "D", "i", "r", "e", "c", "t", "o", "r", "s">>,
       keywords |-> <<
          <<"r", "e", "g", "i", "s", "t", "e", "r", " ", "o", "f", " ", "m", "e", "m", "b", "e", "r", "s">>,
          <<"r", "e", "g", "i", "s", "t", "e", "r", " ", "o", "f", " ", "d", "i", "r", "e", "c", "t", "o", "r", "s">>>>],
      [name |-> "Board Resolution",
       chars |-> <<"B", "o", "a", "r", "d", " ", "R", "e", "s", "o", "l", "u", "t", "i", "o", "n">>,
       keywords |-> <<
          <<"b", "o", "a", "r", "d", " ", "r", "e", "s", "o", "l", "u", "t", "i", "o", "n">>,
          <<"r", "e", "s", "o", "l", "u", "t", "i", "o", "n", " ", "o", "f", " ", "t", "h", "e", " ", "b", "o", "a", "r", "d">>,
          <<"w", "r", "i", "t", "t", "e", "n", " ", "r", "e", "s", "o", "l", "u", "t", "i", "o", "n">>>>],
      [name |-> "Employment Contract",
       chars |-> <<"E", "m", "p", "l", "o", "y", "m", "e", "n", "t", " ", "C", "o", "n", "t", "r", "a", "c", "t">>,
       keywords |-> <<
          <<"e", "m", "p", "l", "o", "y", "m", "e", "n", "t", " ", "c", "o", "n", "t", "r", "a", "c", "t">>,
          <<"e", "m", "p", "l", "o", "y", "e", "e", " ", "a", "g", "r", "e", "e", "m", "e", "n", "t">>,
          <<"t", "e", "r", "m", "s", " ", "o", "f", " ", "e", "m", "p", "l", "o", "y", "m", "e", "n", "t">>>>]>>

\* xml2text of docx2txt: every paragraph of the document followed by a blank
\* line.
RECURSIVE Xml2Text(_)
Xml2Text(raw) ==
    IF raw = <<>> THEN <<>> ELSE Head(raw) \o <<"\n", "\n">> \o Xml2Text(Tail(raw))

\* docx2txt.process: the text of the paragraphs, stripped (return text.strip()).
Docx2Txt(raw) == Strip(Xml2Text(raw))

\* scores[doc_type]: how many keyword phrases of type t occur in text_lower.
KeywordScore(text_lower, t) ==
    Cardinality({k \in 1..Len(DocTypeKeywords[t].keywords) :
                    Contains(text_lower, DocTypeKeywords[t].keywords[k])})

\* round(min(1.0, count / total), 2), in hundredths.
RoundedConfidence(count, total) ==
    Min(100, (200 * count + total) \div (2 * total))

\* max(scores.items(), key=count): the first type, in table order, with the
\* highest score.
BestMatch(text_lower) ==
    LET scored == {t \in 1..Len(DocTypeKeywords) : KeywordScore(text_lower, t) > 0}
        top == SetMax({KeywordScore(text_lower, t) : t \in scored})
    IN  SetMin({t \in scored : KeywordScore(text_lower, t) = top})

\* Size of the snippet of the fallback prompt.
SnippetCap == 4000

\* The first candidate type, in table order, named in the model's response.
NamedCandidates(llm_response) ==
    {t \in 1..Len(DocTypeKeywords) :
        Contains(Lower(llm_response), Lower(DocTypeKeywords[t].chars))}

\* Confidence of a type the fallback named, and of a fallback that named none.
FallbackConfidence == 80

FallbackUnknownConfidence == 35

\* classify_doc_type: <<doc_type, confidence>>.  txt_fails: docx2txt raised;
\* outcome: what the provider does if the fallback calls it.
ClassifyDocType(raw, txt_fails, use_fallback, outcome) ==
    LET text == Docx2Txt(raw)
        text_lower == Lower(text)
        scored == {t \in 1..Len(DocTypeKeywords) : KeywordScore(text_lower, t) > 0}
        llm_response == GetLlmResponse(outcome)
    IN  IF txt_fails THEN <<"Unknown", 0>>
        ELSE IF Strip(text) = <<>> THEN <<"Unknown", 0>>
        ELSE IF scored # {}
             THEN LET best == BestMatch(text_lower)
                  IN  <<DocTypeKeywords[best].name,
                        RoundedConfidence(KeywordScore(text_lower, best),
                                          Max(1, Len(DocTypeKeywords[best].keywords)))>>
        ELSE IF use_fallback
             THEN IF llm_response # <<>> /\ NamedCandidates(llm_response) # {}
                  THEN <<DocTypeKeywords[SetMin(NamedCandidates(llm_response))].name,
                         FallbackConfidence>>
                  ELSE <<"Unknown", FallbackUnknownConfidence>>
        ELSE <<"Unknown", 0>>

\* How the standard output behaves during a call: every print succeeds; every
\* print raises (a pipe whose reader is gone); or the first print of the call
\* raises and the prints after it succeed.
StdoutBehaviours == {"open", "closed", "flaky"}

\* Whether some keyword phrase occurs in the text (`if scores:`, line 63).
HasScores(raw) ==
    \E t \in 1..Len(DocTypeKeywords) : KeywordScore(Lower(Docx2Txt(raw)), t) > 0

\* Whether classify_doc_type takes the LLM fallback (lines 73-99).
ClassifierFallsBack(raw, txt_fails, use_fallback) ==
    /\ ~txt_fails
    /\ Docx2Txt(raw) # <<>>
    /\ ~HasScores(raw)
    /\ use_fallback

\* Whether classify_doc_type prints: at line 47 when the text cannot be
\* read, at line 69 on a keyword match, at lines 95 or 99 (and line 62 of
\* llm_utils.py) in the fallback; an empty text prints nothing.
ClassifierPrints(raw, txt_fails, use_fallback) ==
    \/ txt_fails
    \/ Docx2Txt(raw) # <<>> /\ (HasScores(raw) \/ use_fallback)

\* classify_doc_type with its prints: its value, or the exception of a
\* print.  A print that raises inside the
\* fallback is caught at line 98, where line 99 prints again: when that print
\* succeeds line 101 returns Unknown, 0.0, and when it raises the exception
\* leaves classify_doc_type; a print that raises at line 47 or 69 leaves it.
ClassifyCall(raw, txt_fails, use_fallback, outcome, stdout) ==
    IF stdout = "open" \/ ~ClassifierPrints(raw, txt_fails, use_fallback)
    THEN [raised |-> FALSE,
          value |-> ClassifyDocType(raw, txt_fails, use_fallback, outcome)]
    ELSE IF stdout = "flaky" /\ ClassifierFallsBack(raw, txt_fails, use_fallback)
    THEN [raised |-> FALSE, value |-> <<"Unknown", 0>>]
    ELSE [raised |-> TRUE, value |-> <<"", 0>>]

\* What the provider may answer to the classification prompt.
ClassifierReplies ==
    {<<"B", "o", "a", "r", "d", " ", "R", "e", "s", "o", "l", "u", "t", "i", "o", "n">>,
     <<"u", "n", "k", "n", "o", "w", "n">>,
     <<"a", " ", "m", "e", "m", "o", "r", "a", "n", "d", "u", "m", " ", "o", "f", " ", "a", "s", "s", "o", "c", "i", "a", "t", "i", "o", "n", ",", " ", "o", "r", " ", "A", "r", "t", "i", "c", "l", "e", "s", " ", "o", "f", " ", "A", "s", "s", "o", "c", "i", "a", "t", "i", "o", "n">>}

ClassifierOutcomes ==
    {ProviderRaises, ProviderSays(<<>>)} \cup {ProviderSays(t) : t \in ClassifierReplies}

(***************************************************************************)
(* doc_utils.py: read_docx_paragraphs, annotate_docx; the documents        *)
(***************************************************************************)
\* 'The parties may cooperate under UK law.'
ParaUk ==
    <<"T", "h", "e", " ", "p", "a", "r", "t", "i", "e", "s", " ", "m", "a",
      "y", " ", "c", "o", "o", "p", "e", "r", "a", "t", "e", " ", "u", "n",
      "d", "e", "r", " ", "U", "K", " ", "l", "a", "w", ".">>

\* 'Signed: A'
ParaSigned ==
    <<"S", "i", "g", "n", "e", "d", ":", " ", "A">>

\* 'Board resolution'
ParaBoard ==
    <<"B", "o", "a", "r", "d", " ", "r", "e", "s", "o", "l", "u", "t", "i",
      "o", "n">>

\* 'One signatory could'
ParaOne ==
    <<"O", "n", "e", " ", "s", "i", "g", "n", "a", "t", "o", "r", "y", " ",
      "c", "o", "u", "l", "d">>

\* ' '
ParaBlank ==
    <<" ">>

\* 'Memorandum of Association'
ParaMemo ==
    <<"M", "e", "m", "o", "r", "a", "n", "d", "u", "m", " ", "o", "f", " ",
      "A", "s", "s", "o", "c", "i", "a", "t", "i", "o", "n">>

\* 'The MOA and the AoA'
ParaTie ==
    <<"T", "h", "e", " ", "M", "O", "A", " ", "a", "n", "d", " ", "t", "h",
      "e", " ", "A", "o", "A">>

\* 'Register of Members'
ParaRegister ==
    <<"R", "e", "g", "i", "s", "t", "e", "r", " ", "o", "f", " ", "M", "e",
      "m", "b", "e", "r", "s">>

\* The paragraphs of the documents classify_doc_type is called on.
ClassifyParas == {ParaBoard, ParaSigned, ParaBlank, ParaMemo, ParaTie, ParaRegister}

\* The frame of a call classify_doc_type(docx_path, use_fallback) made on its
\* own: the document, the flag, what docx2txt and the provider did, the result.
NoClassify ==
    [pc |-> "none", raw |-> <<>>, use_fallback |-> FALSE, txt_fails |-> FALSE,
     outcome |-> ProviderRaises, stdout |-> "open", result |-> <<"", 0>>]

ClassifyStart(raw, use_fallback) ==
    [NoClassify EXCEPT !.pc = "call", !.raw = raw, !.use_fallback = use_fallback]

\* The frame after classify_doc_type returned its pair or raised.
ClassifyReturn(f, txt_fails, outcome, stdout) ==
    LET cls == ClassifyCall(f.raw, txt_fails, f.use_fallback, outcome, stdout)
    IN  [f EXCEPT !.pc = IF cls.raised THEN "raised" ELSE "returned",
                  !.txt_fails = txt_fails, !.outcome = outcome, !.stdout = stdout,
                  !.result = cls.value]

\* The paragraphs a source document may hold.
ParaTexts == {ParaUk, ParaSigned, ParaBoard, ParaOne, ParaBlank}

\* Largest number of paragraphs of a source document.
MaxParas == 2

\* The paragraph sequences of the source documents.
RawDocs == SeqsUpTo(ParaTexts, MaxParas)

\* read_docx_paragraphs on a parsed document: the stripped non-empty
\* paragraphs from position i on, each with its 0-based source index.
RECURSIVE ParagraphsFrom(_, _)
ParagraphsFrom(raw, i) ==
    IF i > Len(raw) THEN <<>>
    ELSE (IF Strip(raw[i]) # <<>> THEN <<[idx |-> i - 1, text |-> Strip(raw[i])]>> ELSE <<>>)
         \o ParagraphsFrom(raw, i + 1)

ReadDocxParagraphs(raw) == ParagraphsFrom(raw, 1)

\* annotate_docx: the notes it places, numbered from 1: one per annotation
\* whose index is below the number of paragraphs of the document.
RECURSIVE PlaceNotes(_, _, _)
PlaceNotes(annotations, n_paragraphs, note_counter) ==
    IF annotations = <<>> THEN <<>>
    ELSE IF Head(annotations).para < n_paragraphs
         THEN <<[id |-> note_counter, para_index |-> Head(annotations).para,
                 text |-> Head(annotations).note]>>
              \o PlaceNotes(Tail(annotations), n_paragraphs, note_counter + 1)
    ELSE PlaceNotes(Tail(annotations), n_paragraphs, note_counter)

AnnotateDocx(raw, annotations) ==
    [kind |-> "annotated", raw |-> raw, notes |-> PlaceNotes(annotations, Len(raw), 1)]

\* Document(docx_path).save(annotated_path): the source as it is.
CopyDocx(raw) == [kind |-> "copy", raw |-> raw, notes |-> <<>>]

(***************************************************************************)
(* analyzer.py: analyze_file                                               *)
(***************************************************************************)
\* Clock ticks per second, and the last tick of the clock.
TicksPerSecond == 2

MaxClock == 3

\* datetime.now(timezone.utc).strftime("%Y%m%dT%H%M%SZ"): the instant cut to
\* whole seconds.
FormatTimestamp(clock) == clock \div TicksPerSecond

\* Cap of the document excerpt sent to the language model.
ExcerptCap == 20000

\* An artifact path under OUTPUTS_DIR: prefix + name [+ "_" + stamp] + ext.
NoStamp == -1

Path(prefix, name, stamp, ext) ==
    [prefix |-> prefix, name |-> name, stamp |-> stamp, ext |-> ext]

\* The null reference (None).
NoPath == Path("", <<>>, NoStamp, "")

\* f"annotated_{safe_name}.docx"
AnnotatedPath(safe_name, timestamp) == Path("annotated_", safe_name, NoStamp, ".docx")

\* f"report_{safe_name}_{timestamp}.json"
ReportPath(safe_name, timestamp) == Path("report_", safe_name, timestamp, ".json")

\* f"analysis_outputs_{timestamp}.zip" of process_uploads.
ZipPath(timestamp) == Path("analysis_outputs_", <<>>, timestamp, ".zip")

\* What the similarity store returns for any query, best first.
CorpusHits ==
    <<[text |-> "ref1", meta |-> "m1", score |-> 90],
      [text |-> "ref2", meta |-> "m2", score |-> 40]>>

\* retrieve_evidence: the top n_results hits, or [] when retrieval failed.
RetrieveEvidence(outcome, n_results) ==
    IF outcome = "fails" THEN <<>>
    ELSE SubSeq(CorpusHits, 1, Min(n_results, Len(CorpusHits)))

RagOutcomes == {"fails", "hits"}

NoReport ==
    [file_analyzed |-> <<>>, doc_type |-> "", classification_confidence |-> 0,
     num_paragraphs |-> 0, issues_found |-> <<>>, annotated_file |-> NoPath,
     report_file |-> NoPath, analyzed_at |-> NoStamp]

NoFile == [name |-> <<>>, readable |-> FALSE, raw |-> <<>>]

NoAnalysis ==
    [pc |-> "idle", run |-> 0, docx |-> NoFile, save_annotated |-> FALSE,
     use_llm |-> FALSE, basename |-> <<>>, safe_name |-> <<>>,
     timestamp |-> NoStamp, doc_type |-> "", confidence |-> 0, paras |-> <<>>,
     pos |-> 1, issues |-> <<>>, annotations |-> <<>>, report |-> NoReport,
     annotator_called |-> FALSE, copy_attempted |-> FALSE]

\* One entry of issues; origin and para record which detector made it.
Issue(f, section, issue, severity, suggestion, evidence, origin, para) ==
    [document |-> f.basename, doc_type |-> f.doc_type, section |-> section,
     issue |-> issue, severity |-> severity, suggestion |-> suggestion,
     evidence |-> evidence, origin |-> origin, para |-> para]

Annotation(para, note) == [para |-> para, note |-> note]

\* "\n".join([p for _, p in paras])
WholeText(paras) == Join([i \in 1..Len(paras) |-> paras[i].text], <<"\n">>)

\* Lines 44-57: the names, the timestamp, the classification, the paragraphs.
AnalyzeEnter(docx, save_annotated, use_llm, run, clock, txt_fails, outcome, stdout) ==
    LET cls == ClassifyCall(docx.raw, txt_fails \/ ~docx.readable, TRUE, outcome, stdout)
        entered == [NoAnalysis EXCEPT
                      !.run = run, !.docx = docx,
                      !.save_annotated = save_annotated, !.use_llm = use_llm,
                      !.basename = docx.name,
                      !.safe_name = SanitizeName(SplitExtRoot(docx.name)),
                      !.timestamp = FormatTimestamp(clock),
                      !.doc_type = cls.value[1], !.confidence = cls.value[2]]
    IN  IF cls.raised \/ ~docx.readable THEN [entered EXCEPT !.pc = "raised"]
        ELSE [entered EXCEPT !.pc = "signature", !.paras = ReadDocxParagraphs(docx.raw)]

\* The frame about to check paragraph pos, or past the paragraph loop.
AtParagraph(f, pos) ==
    IF pos <= Len(f.paras) THEN [f EXCEPT !.pc = "paragraphs", !.pos = pos]
    ELSE [f EXCEPT !.pc = IF f.use_llm THEN "llm" ELSE "annotate", !.pos = pos]

\* Whether the missing-signature detector fires on the document.
MissingSignature(paras) == ~SignatureSearch(Lower(WholeText(paras)))

\* Where the missing-signature annotation is anchored.
SignatureAnchor(paras) == IF paras # <<>> THEN Len(paras) - 1 ELSE 0

\* Lines 78-93: the document-level check.
SignatureStep(f, ev) ==
    LET suggestion == "Add signature block with name, position and date."
        issue == Issue(f, <<"Signatures">>, <<"Possible missing signature block">>,
                       "High", suggestion, RetrieveEvidence(ev, 2), "document", NoStamp)
    IN  IF MissingSignature(f.paras)
        THEN AtParagraph([f EXCEPT
                            !.issues = Append(@, issue),
                            !.annotations =
                                Append(@, Annotation(SignatureAnchor(f.paras), <<suggestion>>))],
                         1)
        ELSE AtParagraph(f, 1)

\* Lines 104-117: the non-ADGM jurisdiction detector on one paragraph.
NonAdgmCheck(f, p, ev) ==
    LET found == NonAdgmSearch(Lower(p.text))
        issue == Issue(f, <<"Paragraph ", p.idx>>,
                       <<"Non-ADGM jurisdiction referenced: ", found>>, "High",
                       "Change jurisdiction to ADGM/ADGM Courts if incorporation is in ADGM.",
                       RetrieveEvidence(ev, 2), "paragraph", p.idx)
    IN  IF found = <<>> THEN f
        ELSE [f EXCEPT !.issues = Append(@, issue),
                       !.annotations =
                           Append(@, Annotation(p.idx,
                                                <<"Jurisdiction appears non-ADGM: ", found>>))]

\* Variant: the ambiguous-language detector never fires.
AmbiguousCheck_Off(f, p, ev) == f

\* Lines 120-131: the ambiguous-language detector on one paragraph.
AmbiguousCheck(f, p, ev) ==
    LET issue == Issue(f, <<"Paragraph ", p.idx>>,
                       <<"Potentially ambiguous/non-binding language (may, best endeavours, etc.)">>,
                       "Medium",
                       "Consider using stronger binding language (e.g., 'shall') for obligations.",
                       RetrieveEvidence(ev, 1), "paragraph", p.idx)
    IN  IF ~AmbiguousSearch(Lower(p.text)) THEN f
        ELSE [f EXCEPT !.issues = Append(@, issue),
                       !.annotations =
                           Append(@, Annotation(p.idx,
                               <<"Potentially ambiguous language found. Replace with stronger terms.">>))]

\* Lines 134-145: the single-signatory detector on one paragraph.
SingleSignatoryCheck(f, p, ev) ==
    LET issue == Issue(f, <<"Paragraph ", p.idx>>,
                       <<"Only one authorized signatory specified">>, "Medium",
                       "Confirm checklist requirement; consider adding an additional authorized signatory.",
                       RetrieveEvidence(ev, 1), "paragraph", p.idx)
    IN  IF ~SingleSignatorySearch(Lower(p.text)) THEN f
        ELSE [f EXCEPT !.issues = Append(@, issue),
                       !.annotations =
                           Append(@, Annotation(p.idx,
                               <<"Only one authorized signatory specified. Consider adding another.">>))]

\* Lines 96-145: one iteration of the paragraph loop.
ParagraphStep(f, ev1, ev2, ev3) ==
    LET p == f.paras[f.pos]
    IN  IF Strip(Lower(p.text)) = <<>> THEN AtParagraph(f, f.pos + 1)
        ELSE AtParagraph(
                 SingleSignatoryCheck(AmbiguousCheck(NonAdgmCheck(f, p, ev1), p, ev2), p, ev3),
                 f.pos + 1)

\* Line 151: the excerpt of the document sent to the language model.
DocExcerpt(whole_text) ==
    IF Len(whole_text) < ExcerptCap THEN whole_text ELSE SubSeq(whole_text, 1, ExcerptCap)

\* Lines 153-166: the findings of the language model appended to issues.
RECURSIVE LlmIssues(_, _)
LlmIssues(f, llm_issues) ==
    IF llm_issues = <<>> THEN <<>>
    ELSE LET li == Head(llm_issues)
         IN  (IF li.issue = Absent THEN <<>>
              ELSE <<Issue(f, <<DictGet(li, "section", "LLM Analysis")>>,
                           <<li.issue>>, DictGet(li, "severity", "Low"),
                           DictGet(li, "suggestion", ""), <<>>, "llm", NoStamp)>>)
             \o LlmIssues(f, Tail(llm_issues))

\* Variant: the findings of the language model put before the others.
LlmMerge_Prepend(f, llm_issues) ==
    [f EXCEPT !.issues = LlmIssues(f, llm_issues) \o @, !.pc = "annotate"]

LlmMerge(f, llm_issues) ==
    [f EXCEPT !.issues = @ \o LlmIssues(f, llm_issues), !.pc = "annotate"]

\* Lines 171-180: the report before the artifacts are written.
BuildReport(f) ==
    [file_analyzed |-> f.basename, doc_type |-> f.doc_type,
     classification_confidence |-> f.confidence, num_paragraphs |-> Len(f.paras),
     issues_found |-> f.issues, annotated_file |-> NoPath, report_file |-> NoPath,
     analyzed_at |-> f.timestamp]

\* Variant: the annotator used whenever the report has a finding.
UsesAnnotator_AnyFinding(f) == f.save_annotated /\ f.issues # <<>>

\* Line 184: whether the annotator, rather than a plain copy, is used.
UsesAnnotator(f) == f.save_annotated /\ f.annotations # <<>>

\* Lines 171-199 on the frame: the report, and the annotated artifact written
\* (write_ok) or not.
AnnotateStep(f, write_ok) ==
    LET annotated_path == AnnotatedPath(f.safe_name, f.timestamp)
        report == BuildReport(f)
    IN  [f EXCEPT !.pc = "save",
                  !.annotator_called = UsesAnnotator(f),
                  !.copy_attempted = ~UsesAnnotator(f),
                  !.report = [report EXCEPT !.annotated_file =
                                 IF write_ok THEN annotated_path ELSE NoPath]]

\* The artifact lines 186 and 194-196 write.
AnnotatedArtifact(f) ==
    [doc |-> IF UsesAnnotator(f) THEN AnnotateDocx(f.docx.raw, f.annotations)
             ELSE CopyDocx(f.docx.raw),
     report |-> NoReport]

\* Lines 202-211 on the frame: report_file set after the dump, or left null.
SaveStep(f, write_ok) ==
    [f EXCEPT !.pc = "returned",
              !.report.report_file =
                  IF write_ok THEN ReportPath(f.safe_name, f.timestamp) ELSE NoPath]

\* json.dump(report, f): the report as it is when it is dumped.
ReportArtifact(f) ==
    [doc |-> [kind |-> "json", raw |-> <<>>, notes |-> <<>>], report |-> f.report]

\* What a file holds when open(path, "w") or the package writer created it and
\* a later write, flush or close raised: a beginning that cannot be parsed.
TruncatedArtifact ==
    [doc |-> [kind |-> "truncated", raw |-> <<>>, notes |-> <<>>], report |-> NoReport]

\* How a write of an artifact ends: written whole, failed before the file was
\* opened (nothing on disk changes), or failed after the file was opened
\* (the file is created or truncated, and left incomplete).
WriteOutcomes == {"written", "unopened", "truncated"}

\* How the write of the annotated artifact ends.  annotate_docx prints after
\* doc.save (doc_utils.py:62): when that print raises the file is on disk
\* whole and analyze_file takes the call as failed ("unreported").  The plain
\* copy (analyzer.py:194-196) prints nothing.
AnnotateOutcomes(f) ==
    WriteOutcomes \cup (IF UsesAnnotator(f) THEN {"unreported"} ELSE {})

\* What a write that ended in `outcome` did to the disk.
OnDisk(outcome) == IF outcome = "unreported" THEN "written" ELSE outcome

\* The file system after `content` is written at `path`.
WriteFile(files, path, content) ==
    [p \in DOMAIN files \cup {path} |-> IF p = path THEN content ELSE files[p]]

\* The file system after a write of `content` at `path` ended in `outcome`.
FilesAfter(files, path, content, outcome) ==
    CASE outcome = "written" -> WriteFile(files, path, content)
      [] outcome = "truncated" -> WriteFile(files, path, TruncatedArtifact)
      [] outcome = "unopened" -> files

\* The record of the writes after run `run` on file `name` touched `path`.
WritesAfter(ws, path, run, name, outcome) ==
    IF outcome = "unopened" THEN ws
    ELSE ws \cup {[path |-> path, run |-> run, name |-> name,
                   whole |-> outcome = "written"]}

(***************************************************************************)
(* app.py: process_uploads; analyzer.py: the __main__ directory loop       *)
(***************************************************************************)
\* 'a.docx'
NameA ==
    <<"a", ".", "d", "o", "c", "x">>

\* 'a b.docx'
NameSpaced ==
    <<"a", " ", "b", ".", "d", "o", "c", "x">>

\* '~$a.docx'
NameTemp ==
    <<"~", "$", "a", ".", "d", "o", "c", "x">>

\* '.a.docx'
NameHidden ==
    <<".", "a", ".", "d", "o", "c", "x">>

\* 'a.txt'
NameText ==
    <<"a", ".", "t", "x", "t">>

\* 'A.DOCX'
NameUpper ==
    <<"A", ".", "D", "O", "C", "X">>

\* '~$'
TempPrefix ==
    <<"~", "$">>

\* '.docx'
DocxSuffix ==
    <<".", "d", "o", "c", "x">>

\* Largest number of documents of one batch, and of the documents uploaded in
\* all the calls of process_uploads together.
MaxBatch == 2

\* A document on disk: its base name, whether it is a regular file, whether
\* python-docx can parse it, and its paragraphs.
DocFile(name, isfile, readable, raw) ==
    [name |-> name, isfile |-> isfile, readable |-> readable, raw |-> raw]

\* The documents analyze_file is called on directly.
AnalyzeFiles ==
    {DocFile(NameSpaced, TRUE, FALSE, <<>>)}
    \cup {DocFile(NameSpaced, TRUE, TRUE, raw) :
              raw \in SeqsUpTo(ParaTexts \ {ParaBoard}, MaxParas)}

\* What the provider may answer to the classification prompt and to the
\* analysis prompt while a document is analysed.
AnalysisClassifierOutcomes ==
    {ProviderRaises,
     ProviderSays(<<"B", "o", "a", "r", "d", " ", "R", "e", "s", "o", "l", "u", "t", "i", "o", "n">>)}

AnalysisProviderOutcomes ==
    {ProviderRaises,
     ProviderSays(<<Tok("w")>>),
     ProviderSays(<<Tok("["), ObjTok(ObjFull), Tok(","), ObjTok(ObjNoIssue), Tok("]")>>),
     ProviderSays(<<Tok("["), Tok("n"), Tok(","), ObjTok(ObjOddSeverity), Tok("]")>>)}

\* The entries docs/ may hold: documents of one signed paragraph under each
\* kind of name, an unparsable file, and a subdirectory.
DirectoryFiles ==
    {DocFile(n, TRUE, TRUE, <<ParaSigned>>) :
        n \in {NameA, NameTemp, NameHidden, NameText, NameUpper}}
    \cup {DocFile(NameA, TRUE, FALSE, <<>>), DocFile(NameA, FALSE, FALSE, <<>>)}

\* The files a user may upload.
UploadFiles ==
    {DocFile(NameA, TRUE, TRUE, <<ParaSigned>>), DocFile(NameA, TRUE, FALSE, <<>>),
     DocFile(NameSpaced, TRUE, TRUE, <<ParaSigned>>)}

\* os.listdir gives each name once.
DistinctNames(items) ==
    \A i, j \in 1..Len(items) : items[i].name = items[j].name => i = j

\* Largest number of calls of process_uploads by one application.
MaxSessions == 2

NoBatch ==
    [entry |-> "none", pc |-> "idle", items |-> <<>>, i |-> 1, ncalls |-> 0,
     copied |-> {}, analysed |-> <<>>, log |-> <<>>, produced |-> <<>>,
     zip |-> NoPath, session |-> 0, uploaded |-> 0]

\* The frame of a call process_uploads(items) that follows frame b: the
\* numbering of the analyze_file runs goes on.
UploadsEnter(b, items) ==
    [NoBatch EXCEPT !.entry = "uploads", !.items = items,
                    !.pc = IF items = <<>> THEN "done" ELSE "loop",
                    !.ncalls = b.ncalls, !.session = b.session + 1,
                    !.uploaded = b.uploaded + Len(items)]

\* app.py lines 60-65: the members of the archive, one for every produced
\* file that exists and whose zf.write did not raise (k \notin failing).
RECURSIVE ZipMembers(_, _, _, _)
ZipMembers(files, produced, k, failing) ==
    IF k > Len(produced) THEN <<>>
    ELSE (IF produced[k] \in DOMAIN files /\ k \notin failing
          THEN <<[arcname |-> produced[k], content |-> files[produced[k]]]>>
          ELSE <<>>)
         \o ZipMembers(files, produced, k + 1, failing)

\* The archive process_uploads writes.
ZipArtifact(files, produced, failing) ==
    [doc |-> [kind |-> "zip", raw |-> <<>>, notes |-> <<>>], report |-> NoReport,
     members |-> ZipMembers(files, produced, 1, failing)]

\* app.py lines 55-68 on the frame: the archive path returned, None when
\* nothing was produced, or the exception of zipfile.ZipFile leaving
\* process_uploads.
ZipStep(b, clock, outcome) ==
    IF b.produced = <<>> THEN [b EXCEPT !.pc = "done"]
    ELSE IF outcome = "written"
         THEN [b EXCEPT !.pc = "done", !.zip = ZipPath(FormatTimestamp(clock))]
    ELSE [b EXCEPT !.pc = "raised"]

\* A caller that calls analyze_file once.
DirectCaller == [NoBatch EXCEPT !.entry = "direct"]

\* Lines 217-222 of analyzer.py: whether the loop analyses the entry.
MainEligible(item) ==
    /\ ~(StartsWith(item.name, TempPrefix) \/ StartsWith(item.name, <<".">>))
    /\ item.isfile
    /\ EndsWith(Lower(item.name), DocxSuffix)

\* The caller's frame once analyze_file has been entered for item i.
Calling(b) ==
    [b EXCEPT !.pc = "call", !.ncalls = @ + 1, !.analysed = Append(@, b.i)]

\* Variant: an exception of analyze_file leaves process_uploads.
UploadsAfter_Abort(b, f) ==
    IF f.pc = "raised"
    THEN [b EXCEPT !.pc = "done",
                   !.log = Append(@, [item |-> b.i, status |-> "error", issues |-> 0])]
    ELSE [b EXCEPT !.pc = "loop", !.i = @ + 1,
                   !.log = Append(@, [item |-> b.i, status |-> "ok",
                                      issues |-> Len(f.report.issues_found)])]

\* process_uploads lines 44-53: the summary and the produced files after the
\* analysis of item i returned its report or raised.
UploadsAfter(b, f) ==
    IF f.pc = "raised"
    THEN [b EXCEPT !.pc = "loop", !.i = @ + 1,
                   !.log = Append(@, [item |-> b.i, status |-> "error", issues |-> 0])]
    ELSE [b EXCEPT !.pc = "loop", !.i = @ + 1,
                   !.log = Append(@, [item |-> b.i, status |-> "ok",
                                      issues |-> Len(f.report.issues_found)]),
                   !.produced = @
                       \o (IF f.report.annotated_file # NoPath
                           THEN <<f.report.annotated_file>> ELSE <<>>)
                       \o (IF f.report.report_file # NoPath
                           THEN <<f.report.report_file>> ELSE <<>>)]

\* analyzer.py lines 224-228: the log line after the analysis of item i.
MainAfter(b, f) ==
    IF f.pc = "raised"
    THEN [b EXCEPT !.pc = "loop", !.i = @ + 1,
                   !.log = Append(@, [item |-> b.i, status |-> "error", issues |-> 0])]
    ELSE [b EXCEPT !.pc = "loop", !.i = @ + 1,
                   !.log = Append(@, [item |-> b.i, status |-> "ok",
                                      issues |-> Len(f.report.issues_found)])]

(***************************************************************************)
(* Actions of the analysis pipeline                                        *)
(***************************************************************************)
InitAnalysisState ==
    /\ ck = NoChunker
    /\ cl = NoClassify
    /\ llm = NoLlm
    /\ dir = NoDirectory /\ store = {} /\ ing = [r \in {} |-> 0]
    /\ an = NoAnalysis
    /\ fs = <<>>
    /\ writes = {}
    /\ now = 0

InitAnalyze == InitAnalysisState /\ batch = DirectCaller

InitBatch == InitAnalysisState /\ batch = NoBatch

\* A direct call analyze_file(docx_path, save_annotated, use_llm), at the
\* next instant of the clock.
AnalyzeCall ==
    /\ batch.entry = "direct" /\ batch.pc = "idle"
    /\ \E docx \in AnalyzeFiles, save_annotated \in BOOLEAN, use_llm \in BOOLEAN,
          clock \in {now + 1}, txt_fails \in BOOLEAN,
          outcome \in AnalysisClassifierOutcomes, stdout \in StdoutBehaviours :
           /\ an' = AnalyzeEnter(docx, save_annotated, use_llm, batch.ncalls + 1,
                                 clock, txt_fails, outcome, stdout)
           /\ now' = clock
    /\ batch' = Calling(batch)
    /\ UNCHANGED <<ck, cl, llm, ragVars, fs, writes>>

\* The document-level check.
AnalyzeSignature ==
    /\ an.pc = "signature"
    /\ \E ev \in RagOutcomes : an' = SignatureStep(an, ev)
    /\ UNCHANGED <<ck, cl, llm, ragVars, fs, writes, now, batch>>

\* The paragraph loop checks its next paragraph.
AnalyzeParagraph ==
    /\ an.pc = "paragraphs"
    /\ \E ev1 \in RagOutcomes, ev2 \in RagOutcomes, ev3 \in RagOutcomes :
           an' = ParagraphStep(an, ev1, ev2, ev3)
    /\ UNCHANGED <<ck, cl, llm, ragVars, fs, writes, now, batch>>

\* analyze_file calls analyze_with_llm(doc_excerpt, doc_type).
AnalyzeLlmCall ==
    /\ an.pc = "llm"
    /\ llm' = LlmStart([doc_text |-> DocExcerpt(WholeText(an.paras)),
                        doc_type |-> an.doc_type], DefaultMaxRetries)
    /\ an' = [an EXCEPT !.pc = "llm_wait"]
    /\ UNCHANGED <<ck, cl, ragVars, fs, writes, now, batch>>

\* analyze_with_llm has returned, and its findings join the issues; or it has
\* raised, and the except clause of line 167 leaves the issues as they are.
AnalyzeLlmMerge ==
    /\ an.pc = "llm_wait"
    /\ llm.pc \in {"returned", "raised"}
    /\ an' = LlmMerge(an, llm.result)
    /\ llm' = NoLlm
    /\ UNCHANGED <<ck, cl, ragVars, fs, writes, now, batch>>

\* The report is built and the annotated artifact is written, or fails, or is
\* written and taken as failed.
AnalyzeAnnotate ==
    /\ an.pc = "annotate"
    /\ \E outcome \in AnnotateOutcomes(an) :
           /\ an' = AnnotateStep(an, outcome = "written")
           /\ fs' = FilesAfter(fs, AnnotatedPath(an.safe_name, an.timestamp),
                               AnnotatedArtifact(an), OnDisk(outcome))
           /\ writes' = WritesAfter(writes, AnnotatedPath(an.safe_name, an.timestamp),
                                    an.run, an.basename, OnDisk(outcome))
    /\ UNCHANGED <<ck, cl, llm, ragVars, now, batch>>

\* The JSON report is written, or fails, and analyze_file returns.
AnalyzeSave ==
    /\ an.pc = "save"
    /\ \E outcome \in WriteOutcomes :
           /\ an' = SaveStep(an, outcome = "written")
           /\ fs' = FilesAfter(fs, ReportPath(an.safe_name, an.timestamp),
                               ReportArtifact(an), outcome)
           /\ writes' = WritesAfter(writes, ReportPath(an.safe_name, an.timestamp),
                                    an.run, an.basename, outcome)
    /\ UNCHANGED <<ck, cl, llm, ragVars, now, batch>>

\* analyze_with_llm, called by analyze_file, makes its next attempt.
AnalyzeLlmAttempt ==
    /\ an.pc = "llm_wait"
    /\ llm.pc = "attempt"
    /\ \E outcome \in AnalysisProviderOutcomes, stdout \in StdoutBehaviours :
           llm' = LlmIteration(llm, outcome, stdout)
    /\ UNCHANGED <<ck, cl, ragVars, anVars>>

AnalysisSteps ==
    \/ AnalyzeSignature
    \/ AnalyzeParagraph
    \/ AnalyzeLlmCall
    \/ AnalyzeLlmAttempt
    \/ AnalyzeLlmMerge
    \/ AnalyzeAnnotate
    \/ AnalyzeSave

NextAnalyze == AnalyzeCall \/ AnalysisSteps

SpecAnalyze == InitAnalyze /\ [][NextAnalyze]_vars

\* process_uploads(uploaded_files) is called: the first click, or a later one
\* after the call before it returned or raised.
ProcessUploadsCall ==
    /\ \/ batch.entry = "none"
       \/ /\ batch.entry = "uploads"
          /\ batch.pc \in {"done", "raised"}
          /\ batch.session < MaxSessions
    /\ \E items \in SeqsUpTo(UploadFiles, MaxBatch - batch.uploaded) :
           batch' = UploadsEnter(batch, items)
    /\ UNCHANGED <<ck, cl, llm, ragVars, an, fs, writes, now>>

\* The upload loop takes its next file: it copies it to docs/ and calls
\* analyze_file on the copy.
UploadsStep ==
    /\ batch.entry = "uploads" /\ batch.pc = "loop"
    /\ batch.i <= Len(batch.items)
    /\ \E copy_ok \in BOOLEAN :
              IF ~copy_ok
              THEN /\ batch' = [batch EXCEPT
                                  !.i = @ + 1,
                                  !.log = Append(@, [item |-> batch.i,
                                                     status |-> "save_error",
                                                     issues |-> 0])]
                   /\ UNCHANGED <<an, now>>
              ELSE \E clock \in (now + 1)..MaxClock, txt_fails \in BOOLEAN,
                      outcome \in AnalysisClassifierOutcomes,
                      stdout \in StdoutBehaviours :
                     /\ an' = AnalyzeEnter(batch.items[batch.i], TRUE, TRUE,
                                           batch.ncalls + 1, clock, txt_fails, outcome,
                                           stdout)
                     /\ now' = clock
                     /\ batch' = [Calling(batch) EXCEPT !.copied = @ \cup {batch.i}]
    /\ UNCHANGED <<ck, cl, llm, ragVars, fs, writes>>

\* After the upload loop: the produced files are zipped into the outputs
\* directory under the name of the current second, and process_uploads
\* returns; or the archive cannot be written and process_uploads raises.
UploadsZip ==
    /\ batch.entry = "uploads" /\ batch.pc = "loop"
    /\ batch.i > Len(batch.items)
    /\ IF batch.produced = <<>>
       THEN /\ batch' = ZipStep(batch, now, "unopened")
            /\ UNCHANGED <<fs, now>>
       ELSE \E clock \in now..MaxClock, outcome \in WriteOutcomes,
               failing \in SUBSET (1..Len(batch.produced)) :
              /\ batch' = ZipStep(batch, clock, outcome)
              /\ fs' = FilesAfter(fs, ZipPath(FormatTimestamp(clock)),
                                  ZipArtifact(fs, batch.produced, failing), outcome)
              /\ now' = clock
    /\ UNCHANGED <<ck, cl, llm, ragVars, an, writes>>

\* analyze_file returned or raised: the summary line of the file.
UploadsCollect ==
    /\ batch.entry = "uploads" /\ batch.pc = "call"
    /\ an.pc \in {"returned", "raised"}
    /\ batch' = UploadsAfter(batch, an)
    /\ an' = NoAnalysis
    /\ UNCHANGED <<ck, cl, llm, ragVars, fs, writes, now>>

\* python -m src.analyzer: the loop over os.listdir(DOCS_DIR) starts.
MainRun ==
    /\ batch.entry = "none"
    /\ \E items \in SeqsUpTo(DirectoryFiles, MaxBatch) :
           /\ DistinctNames(items)
           /\ batch' = [batch EXCEPT !.entry = "main", !.items = items, !.pc = "loop"]
    /\ UNCHANGED <<ck, cl, llm, ragVars, an, fs, writes, now>>

\* The directory loop takes its next entry: it skips it, or calls analyze_file.
MainStep ==
    /\ batch.entry = "main" /\ batch.pc = "loop"
    /\ IF batch.i > Len(batch.items)
       THEN /\ batch' = [batch EXCEPT !.pc = "done"]
            /\ UNCHANGED <<an, now>>
       ELSE IF ~MainEligible(batch.items[batch.i])
       THEN /\ batch' = [batch EXCEPT
                           !.i = @ + 1,
                           !.log = Append(@, [item |-> batch.i, status |-> "skipped",
                                              issues |-> 0])]
            /\ UNCHANGED <<an, now>>
       ELSE \E clock \in (now + 1)..MaxClock, txt_fails \in BOOLEAN,
               outcome \in AnalysisClassifierOutcomes, stdout \in StdoutBehaviours :
              /\ an' = AnalyzeEnter(batch.items[batch.i], TRUE, TRUE,
                                    batch.ncalls + 1, clock, txt_fails, outcome, stdout)
              /\ now' = clock
              /\ batch' = Calling(batch)
    /\ UNCHANGED <<ck, cl, llm, ragVars, fs, writes>>

\* analyze_file returned or raised: the log line of the entry.
MainCollect ==
    /\ batch.entry = "main" /\ batch.pc = "call"
    /\ an.pc \in {"returned", "raised"}
    /\ batch' = MainAfter(batch, an)
    /\ an' = NoAnalysis
    /\ UNCHANGED <<ck, cl, llm, ragVars, fs, writes, now>>

NextBatch ==
    \/ ProcessUploadsCall
    \/ UploadsStep
    \/ UploadsCollect
    \/ UploadsZip
    \/ MainRun
    \/ MainStep
    \/ MainCollect
    \/ AnalysisSteps

SpecBatch == InitBatch /\ [][NextBatch]_vars

(***************************************************************************)
(* Actions of ingest_sources                                               *)
(***************************************************************************)
InitIngest ==
    /\ ck = NoChunker
    /\ cl = NoClassify
    /\ llm = NoLlm
    /\ dir \in Directories
    /\ store \in {{}} \cup
         {{ChunkRecord(<<0, 1>>, Strip(RawUnits(b)[1]), <<1, ".pdf">>,
                       [page |-> 1, text |-> RawUnits(b)[1], para_index |-> 0],
                       0, 0, FileChecksum(b))} : b \in {"one"}}
    /\ ing = [r \in Runs |-> NoIngest]
    /\ an = NoAnalysis /\ fs = <<>> /\ writes = {} /\ now = 0 /\ batch = NoBatch

Active(r) == ing[r].pc \in {"files", "chunks"}

Finished(r) == ing[r].pc \in {"done", "raised"}

\* A run of ingest_sources begins while no other run is in progress.
IngestStart(r) ==
    /\ ing[r].pc = "idle"
    /\ \A o \in Runs : ~Active(o)
    /\ \E client_raises \in BOOLEAN, get_fails \in BOOLEAN, print_raises \in BOOLEAN :
           ing' = [ing EXCEPT ![r] = IngestBegin(ing[r], client_raises, get_fails,
                                                 print_raises,
                                                 {o \in Runs : Finished(o)})]
    /\ UNCHANGED <<ck, cl, llm, dir, store, anVars>>

\* The for loop over the listing takes its next entry, or ends: line 168
\* prints the total, and the run is done unless that print raises.
IngestFile(r) ==
    /\ ing[r].pc = "files"
    /\ \E print_raises \in BOOLEAN, ingested_raises \in BOOLEAN :
         IF ing[r].fi > Len(ing[r].listing)
         THEN ing' = [ing EXCEPT ![r].pc = IF print_raises THEN "raised" ELSE "done"]
         ELSE \E hash_raises \in BOOLEAN, read_fails \in BOOLEAN,
                 good \in 0..Len(RawUnits(ing[r].listing[ing[r].fi].bytes)) :
                  ing' = [ing EXCEPT ![r] = IngestEntry(ing[r], hash_raises, read_fails,
                                                        good, print_raises,
                                                        ingested_raises)]
    /\ UNCHANGED <<ck, cl, llm, dir, store, anVars>>

\* The chunk loop pulls the generator once and stores the chunk it yields.
\* A collection.add that raises is caught and printed at line 164: when that
\* print raises, the exception leaves ingest_sources.  ingested_raises is the
\* outcome of line 166, reached when the pull exhausts the file.
IngestChunk(r) ==
    /\ ing[r].pc = "chunks"
    /\ Len(ing[r].g.chunks) < MaxChunks
    /\ \E add_raises \in BOOLEAN, print_raises \in BOOLEAN, ingested_raises \in BOOLEAN :
       LET f == ing[r]
           g2 == ChunkerStep(f.g)
           yields == ChunkerYields(f.g)
           chunk == g2.chunks[Len(g2.chunks)]
           rec == ChunkRecord(<<r, f.uuids + 1>>, chunk, FileName(f.listing[f.fi]),
                              f.pages[f.pi], f.si - 1, Len(f.g.chunks), f.fhash)
           pulled == [f EXCEPT !.g = g2]
           moved == IF g2.pc = "done" THEN AfterSegment(pulled, ingested_raises)
                    ELSE pulled
       IN  IF ~yields THEN ing' = [ing EXCEPT ![r] = moved] /\ store' = store
           ELSE   IF add_raises
                  THEN /\ ing' = [ing EXCEPT ![r] =
                                    IF print_raises
                                    THEN [pulled EXCEPT !.pc = "raised", !.uuids = @ + 1]
                                    ELSE [moved EXCEPT !.uuids = @ + 1]]
                       /\ store' = store
                  ELSE /\ ing' = [ing EXCEPT ![r] =
                                    [moved EXCEPT !.uuids = @ + 1,
                                                  !.total_chunks = @ + 1,
                                                  !.wrote = @ \cup {f.fi}]]
                       /\ store' = store \cup {rec}
    /\ UNCHANGED <<ck, cl, llm, dir, anVars>>

NextIngest == \E r \in Runs : IngestStart(r) \/ IngestFile(r) \/ IngestChunk(r)

SpecIngest == InitIngest /\ [][NextIngest]_vars

(***************************************************************************)
(* Two ingest_sources processes on one store and one directory.  The code  *)
(* takes no lock and the store offers none: a second process may begin     *)
(* while the first is anywhere between its collection.get and its last     *)
(* collection.add.                                                         *)
(***************************************************************************)
\* Largest number of entries of the directory the two processes share.
RaceFiles == 1

\* The directory the two processes share: PDF or DOCX files with text.
RaceDirectories ==
    {d \in Directories :
        /\ d.exists
        /\ DOMAIN d.entries = 1..RaceFiles
        /\ \A n \in DOMAIN d.entries :
               /\ d.entries[n].isfile
               /\ d.entries[n].ext \in {".pdf", ".docx"}
               /\ d.entries[n].bytes # "empty"}

InitRace ==
    /\ ck = NoChunker
    /\ cl = NoClassify
    /\ llm = NoLlm
    /\ dir \in RaceDirectories
    /\ store = {}
    /\ ing = [r \in Runs |-> NoIngest]
    /\ an = NoAnalysis /\ fs = <<>> /\ writes = {} /\ now = 0 /\ batch = NoBatch

\* A process begins ingest_sources, whatever the other process is doing.
IngestStartRacing(r) ==
    /\ ing[r].pc = "idle"
    /\ \E client_raises \in BOOLEAN, get_fails \in BOOLEAN, print_raises \in BOOLEAN :
           ing' = [ing EXCEPT ![r] = IngestBegin(ing[r], client_raises, get_fails,
                                                 print_raises,
                                                 {o \in Runs : Finished(o)})]
    /\ UNCHANGED <<ck, cl, llm, dir, store, anVars>>

NextRace == \E r \in Runs : IngestStartRacing(r) \/ IngestFile(r) \/ IngestChunk(r)

SpecRace == InitRace /\ [][NextRace]_vars

DocTypes == {"Board Resolution", "Unknown"}

\* analyze_with_llm(doc_text, doc_type, max_retries) called on its own.
InitLlm ==
    /\ ck = NoChunker
    /\ cl = NoClassify
    /\ dir = NoDirectory /\ store = {} /\ ing = [r \in {} |-> 0]
    /\ an = NoAnalysis /\ fs = <<>> /\ writes = {} /\ now = 0 /\ batch = NoBatch
    /\ \E text \in {t \in Texts : Len(t) <= 1}, doc_type \in DocTypes,
          max_retries \in 0..MaxRetriesBound :
           llm = LlmStart([doc_text |-> text, doc_type |-> doc_type], max_retries)

\* analyze_with_llm, called on its own, makes its next attempt.
LlmAttempt ==
    /\ an.pc = "idle"
    /\ llm.pc = "attempt"
    /\ \E outcome \in ProviderOutcomes, stdout \in StdoutBehaviours :
           llm' = LlmIteration(llm, outcome, stdout)
    /\ UNCHANGED <<ck, cl, ragVars, anVars>>

NextLlm == LlmAttempt

SpecLlm == InitLlm /\ [][NextLlm]_vars

\* classify_doc_type called on its own.
InitClassify ==
    /\ ck = NoChunker
    /\ llm = NoLlm
    /\ dir = NoDirectory /\ store = {} /\ ing = [r \in {} |-> 0]
    /\ an = NoAnalysis /\ fs = <<>> /\ writes = {} /\ now = 0 /\ batch = NoBatch
    /\ \E raw \in SeqsUpTo(ClassifyParas, MaxParas), use_fallback \in BOOLEAN :
           cl = ClassifyStart(raw, use_fallback)

\* classify_doc_type runs: docx2txt reads the file or fails, the provider
\* answers the fallback prompt if it is sent, and the prints succeed or raise.
Classify ==
    /\ cl.pc = "call"
    /\ \E txt_fails \in BOOLEAN, outcome \in ClassifierOutcomes,
          stdout \in StdoutBehaviours :
           cl' = ClassifyReturn(cl, txt_fails, outcome, stdout)
    /\ UNCHANGED <<ck, llm, ragVars, anVars>>

NextClassify == Classify

SpecClassify == InitClassify /\ [][NextClassify]_vars

InitChunk ==
    /\ cl = NoClassify
    /\ llm = NoLlm
    /\ dir = NoDirectory /\ store = {} /\ ing = [r \in {} |-> 0]
    /\ an = NoAnalysis /\ fs = <<>> /\ writes = {} /\ now = 0 /\ batch = NoBatch
    /\ \E text \in Texts :
           \/ \E c \in 1..MaxChunkSize, o \in 0..(MaxChunkSize - 1) :
                  o < c /\ ck = ChunkerStart(text, c, o)
           \/ ck = ChunkerStart(text, DefaultChunkSize, DefaultOverlap)

\* The consumer pulls the generator through one loop iteration.
ChunkIterate ==
    /\ ck.pc = "loop"
    /\ Len(ck.chunks) < MaxChunks
    /\ ck' = ChunkerStep(ck)
    /\ UNCHANGED <<cl, llm, ragVars, anVars>>

NextChunk == ChunkIterate

SpecChunk == InitChunk /\ [][NextChunk]_vars

(***************************************************************************)
(* Properties                                                              *)
(***************************************************************************)

\* C2 (as claimed): the sliding-window chunker stops once its window has
\* reached the end of the text: after an iteration whose window ended at
\* len(text), the generator is exhausted.
C2_ChunkerStopsAtEnd ==
    (ck.entered /\ ck.end = Len(ck.text)) => ck.pc = "done"

\* C3 (as claimed): a run of ingest_sources that starts after another run
\* has ended adds no chunk to the store.
C3_SecondRunAddsNothing ==
    \A r \in Runs : ing[r].after # {} => ing[r].total_chunks = 0

\* C4 (as claimed): a failure confined to one file does not stop the others:
\* a run never ends before it has taken every entry of the listing.
C4_FailureIsolated ==
    \A r \in Runs : Finished(r) => ing[r].fi > Len(ing[r].listing)

\* C5 (as claimed): when every attempt of analyze_with_llm failed, by a
\* provider failure or by an unparsable response, it has made exactly
\* max_retries + 1 calls with the same prompt and returns the empty list.
C5_AllFailuresRetried ==
    (/\ llm.pc = "returned"
     /\ \A i \in 1..Len(llm.outcomes) : llm.outcomes[i] \in {"network", "unparsable"})
    => /\ Len(llm.calls) = llm.max_retries + 1
       /\ \A i \in 1..Len(llm.calls) : llm.calls[i] = llm.prompt
       /\ llm.result = <<>>

(***************************************************************************)
(* Properties of analyze_file and of the batch loops                       *)
(***************************************************************************)
OriginRank(origin) ==
    CASE origin = "document" -> 1 [] origin = "paragraph" -> 2 [] origin = "llm" -> 3

IssuesOrdered(issues) ==
    \A i, j \in 1..Len(issues) :
        i < j =>
            /\ OriginRank(issues[i].origin) <= OriginRank(issues[j].origin)
            /\ (issues[i].origin = "paragraph" /\ issues[j].origin = "paragraph"
                    => issues[i].para <= issues[j].para)

\* C1: the issues_found list of every returned report holds the
\* document-level findings first, then the paragraph findings in
\* non-decreasing paragraph index, then the findings of the language model.
C1_IssuesOrdered ==
    an.pc = "returned" => IssuesOrdered(an.report.issues_found)

\* A returned report with a document-level finding, findings of two
\* different paragraphs and a finding of the language model.
C1_Witness ==
    /\ an.pc = "returned"
    /\ \E i, j, k, l \in 1..Len(an.report.issues_found) :
           /\ an.report.issues_found[i].origin = "document"
           /\ an.report.issues_found[j].origin = "paragraph"
           /\ an.report.issues_found[k].origin = "paragraph"
           /\ an.report.issues_found[j].para < an.report.issues_found[k].para
           /\ an.report.issues_found[l].origin = "llm"

InAnalysis == an.pc \in {"signature", "paragraphs", "llm", "llm_wait", "annotate", "save"}

WrittenByRun(path) ==
    \E w \in writes : w.path = path /\ w.run = an.run /\ w.whole

\* C6 (as claimed): analyze_file raises exactly when the source document
\* cannot be parsed; on a parsed document no step of the pipeline is ever blocked
\* (the paragraph loop has its paragraph, the wait for analyze_with_llm has a
\* call that attempts or has ended), and a reference of the returned
\* report is non-null exactly when this run wrote that artifact.
C6_RaisesOnlyWhenUnreadable ==
    /\ an.pc = "raised" => ~an.docx.readable
    /\ InAnalysis \/ an.pc = "returned" => an.docx.readable
    /\ an.pc = "paragraphs" => an.pos \in 1..Len(an.paras)
    /\ an.pc = "llm_wait" => llm.pc \in {"attempt", "returned", "raised"}
    /\ an.pc = "returned" =>
           /\ an.report.annotated_file # NoPath => WrittenByRun(an.report.annotated_file)
           /\ an.report.report_file # NoPath => WrittenByRun(an.report.report_file)
           /\ ~WrittenByRun(AnnotatedPath(an.safe_name, an.timestamp))
                  => an.report.annotated_file = NoPath
           /\ ~WrittenByRun(ReportPath(an.safe_name, an.timestamp))
                  => an.report.report_file = NoPath

RECURSIVE Indices(_, _, _)
\* The indices from j on that satisfy keep, ascending.
Indices(n, j, keep) ==
    IF j > n THEN <<>>
    ELSE (IF keep[j] THEN <<j>> ELSE <<>>) \o Indices(n, j + 1, keep)

\* Whether the batch is to analyse its item j: the directory loop by the
\* name and kind of the entry, process_uploads when the upload was copied.
Eligible(b, j) ==
    IF b.entry = "main" THEN MainEligible(b.items[j])
    ELSE b.log[j].status # "save_error"

\* C7: when a batch ends, by returning or by the exception of the archive
\* step of process_uploads, every item has been visited in order, analyze_file
\* was entered exactly once, in order, for every eligible item, and an item
\* whose analysis raised is recorded as an error while the items after it are
\* analysed all the same.
C7_BatchIsolation ==
    batch.pc \in {"done", "raised"} =>
        /\ Len(batch.log) = Len(batch.items)
        /\ \A j \in 1..Len(batch.log) : batch.log[j].item = j
        /\ batch.analysed =
               Indices(Len(batch.items), 1,
                       [j \in 1..Len(batch.items) |-> Eligible(batch, j)])
        /\ \A j \in 1..Len(batch.items) :
               IF Eligible(batch, j)
               THEN /\ batch.log[j].status \in {"ok", "error"}
                    /\ ~batch.items[j].readable => batch.log[j].status = "error"
               ELSE batch.log[j].status \in {"skipped", "save_error"}

\* A finished batch whose first document raised and whose second document
\* was analysed.
C7_Witness ==
    /\ batch.pc = "done"
    /\ Len(batch.log) = 2
    /\ batch.log[1].status = "error"
    /\ batch.log[2].status = "ok"
    /\ batch.analysed = <<1, 2>>

\* C8: two runs of analyze_file on the same input file name never write the
\* same artifact path.
C8_RunsNeverSharePath ==
    \A w1, w2 \in writes :
        w1.name = w2.name /\ w1.run # w2.run => w1.path # w2.path

HasRuleFinding(issues) == \E i \in 1..Len(issues) : issues[i].origin # "llm"

\* C9 as stated: with save_annotated set, the annotator is invoked exactly
\* when the report has a finding, of the rule engine or of the language model.
C9_AnnotatorOnAnyFinding ==
    an.pc \in {"save", "returned"} /\ an.save_annotated =>
        (an.annotator_called <=> an.report.issues_found # <<>>)

\* C9, amended: the annotator is invoked exactly when save_annotated is set
\* and the rule engine made a finding; in every other case, also that of a
\* report holding findings of the language model only, a plain copy of the
\* source is what is written, when the write succeeds.
C9_AnnotatorOnRuleFindings ==
    an.pc \in {"save", "returned"} =>
        /\ an.annotator_called <=>
               (an.save_annotated /\ HasRuleFinding(an.report.issues_found))
        /\ an.copy_attempted <=> ~an.annotator_called
        /\ \A p \in DOMAIN fs :
               WrittenByRun(p) /\ p.prefix = "annotated_"
                   => fs[p].doc.kind = IF an.annotator_called THEN "annotated" ELSE "copy"

\* A returned report with findings whose document went through the annotator.
C9_Witness ==
    /\ an.pc = "returned"
    /\ an.annotator_called
    /\ \E i \in 1..Len(an.report.issues_found) : an.report.issues_found[i].origin = "llm"
    /\ an.report.annotated_file # NoPath
    /\ fs[an.report.annotated_file].doc.kind = "annotated"

\* C10: when the annotator fails, a plain copy of the source is persisted as
\* the annotated artifact.
C10_AnnotatorFailureDegradesToCopy ==
    an.pc \in {"save", "returned"} /\ an.annotator_called
        /\ ~WrittenByRun(AnnotatedPath(an.safe_name, an.timestamp))
        => an.copy_attempted

\* C11: every finding of a returned report has a severity among High,
\* Medium and Low, the findings of the language model included.
C11_SeverityInRange ==
    an.pc = "returned" =>
        \A i \in 1..Len(an.report.issues_found) :
            an.report.issues_found[i].severity \in {"High", "Medium", "Low"}

(***************************************************************************)
(* Properties of classify_doc_type                                         *)
(***************************************************************************)
\* How many keyword phrases of type t occur in the lower-cased text.
Matched(text_lower, t) ==
    Cardinality({k \in 1..Len(DocTypeKeywords[t].keywords) :
                    \E i \in 1..Len(text_lower) :
                        StartsAt(text_lower, i, DocTypeKeywords[t].keywords[k])})

\* Whether c hundredths is count/total rounded to two decimals.
IsRounded(c, count, total) ==
    /\ c \in 0..100
    /\ 2 * (c * total - 100 * count) <= total
    /\ 2 * (100 * count - c * total) <= total

\* C12 (as claimed): on a text that docx2txt could read, classify_doc_type
\* returns, and what it returns is, for a
\* non-empty text matching keyword phrases, the first type in table order
\* with the highest match count k and the confidence k/T rounded to two
\* decimals; with no match and the fallback enabled, a candidate named in
\* the model's response with confidence 0.8, or Unknown with 0.35 when the
\* model fails or names none; with no match and the fallback disabled, or
\* for an empty text, Unknown with confidence 0.
C12_ClassifierResult ==
    cl.pc \in {"returned", "raised"} /\ ~cl.txt_fails =>
        LET text_lower == Lower(Docx2Txt(cl.raw))
            types == 1..Len(DocTypeKeywords)
            matched == {t \in types : Matched(text_lower, t) >= 1}
            response == IF cl.outcome.raises THEN <<>> ELSE Lower(cl.outcome.text)
            named == {t \in types : Contains(response, Lower(DocTypeKeywords[t].chars))}
        IN  cl.pc = "returned" /\
            IF Strip(text_lower) = <<>> THEN cl.result = <<"Unknown", 0>>
            ELSE IF matched # {}
            THEN \E t \in matched :
                    /\ cl.result[1] = DocTypeKeywords[t].name
                    /\ \A u \in types : Matched(text_lower, u) <= Matched(text_lower, t)
                    /\ \A u \in types : u < t => Matched(text_lower, u) < Matched(text_lower, t)
                    /\ IsRounded(cl.result[2], Matched(text_lower, t),
                                 Len(DocTypeKeywords[t].keywords))
            ELSE IF ~cl.use_fallback THEN cl.result = <<"Unknown", 0>>
            ELSE IF named = {} THEN cl.result = <<"Unknown", 35>>
            ELSE /\ cl.result[2] = 80
                 /\ \E t \in named : cl.result[1] = DocTypeKeywords[t].name

(***************************************************************************)
(* The scenario of the one-paragraph document                              *)
(***************************************************************************)
\* Whether the first three findings are: missing signature (High, document
\* level), non-ADGM jurisdiction (High, paragraph 0, matched term "uk"),
\* ambiguous language (Medium, paragraph 0).
ScenarioFindings(issues) ==
    /\ Len(issues) >= 3
    /\ issues[1].origin = "document"
    /\ issues[1].severity = "High"
    /\ issues[1].issue = <<"Possible missing signature block">>
    /\ issues[2].origin = "paragraph" /\ issues[2].para = 0
    /\ issues[2].severity = "High"
    /\ issues[2].issue = <<"Non-ADGM jurisdiction referenced: ", <<"u", "k">> >>
    /\ issues[3].origin = "paragraph" /\ issues[3].para = 0
    /\ issues[3].severity = "Medium"
    /\ issues[3].issue =
           <<"Potentially ambiguous/non-binding language (may, best endeavours, etc.)">>

\* C13 as stated: the report of the one-paragraph document "The parties may
\* cooperate under UK law." has exactly the three findings.
C13_ExactlyThreeFindings ==
    an.pc = "returned" /\ an.docx.raw = <<ParaUk>> =>
        /\ ScenarioFindings(an.report.issues_found)
        /\ Len(an.report.issues_found) = 3

\* C13, amended: the report of that document starts with the three findings
\* of the rule engine, every further finding comes from the language model,
\* and there is none when the language model is disabled.
C13_ThreeRuleFindingsFirst ==
    an.pc = "returned" /\ an.docx.raw = <<ParaUk>> =>
        /\ ScenarioFindings(an.report.issues_found)
        /\ \A i \in 4..Len(an.report.issues_found) :
               an.report.issues_found[i].origin = "llm"
        /\ ~an.use_llm => Len(an.report.issues_found) = 3

\* The report of that document, analysed without the language model.
C13_Witness ==
    /\ an.pc = "returned"
    /\ an.docx.raw = <<ParaUk>>
    /\ ~an.use_llm
    /\ Len(an.report.issues_found) = 3

\* The ingestion (a run and a file name) that wrote chunk c of the store.
IngestionOf(c) == <<c.id[1], c.source_file>>

\* C14 (as claimed): a file is skipped whenever its content hash is already
\* associated with some chunk in the store when the file is processed: a run
\* never reads a file whose hash the store lists for another ingestion, and
\* the store never holds chunks of two file ingestions with one file hash.
C14_StoredHashSkipped ==
    /\ \A r \in Runs : ing[r].pc = "chunks" =>
           \A c \in store : c.file_hash = ing[r].fhash =>
               IngestionOf(c) = <<r, FileName(ing[r].listing[ing[r].fi])>>
    /\ \A c1, c2 \in store : c1.file_hash = c2.file_hash =>
           IngestionOf(c1) = IngestionOf(c2)

\* The source indices read_docx_paragraphs preserved for the paragraphs it kept.
ExtractedIndices(paras) == {paras[i].idx : i \in 1..Len(paras)}

\* C15 (as claimed): every annotation handed to annotate_docx is anchored at
\* the preserved source index of an extracted paragraph, and the
\* missing-signature annotation at the preserved index of the last extracted
\* paragraph.
C15_AnnotationsAnchored ==
    an.annotator_called =>
        /\ \A i \in 1..Len(an.annotations) :
               an.annotations[i].para \in ExtractedIndices(an.paras)
        /\ MissingSignature(an.paras) =>
               /\ an.paras # <<>>
               /\ an.annotations[1].para = an.paras[Len(an.paras)].idx

\* C17 (as claimed): when analyze_file returns after the JSON report was
\* written, the report stored at the report path equals the returned report
\* in every field, report_file included.
C17_PersistedReportIsReturned ==
    (an.pc = "returned" /\ an.report.report_file # NoPath) =>
        /\ an.report.report_file \in DOMAIN fs
        /\ fs[an.report.report_file].report = an.report

\* C16: interleaved runs decide on the hashes each read when it began, never
\* on the store as it is when a file is taken: what a run read is stored, it
\* skips exactly the files whose hash it read, and it reads and writes only
\* files whose hash it did not read, whatever the other run has written since.
C16_RunsDecideOnTheirSnapshot ==
    \A r \in Runs :
        /\ ing[r].ingested_hashes \subseteq StoredHashes(store)
        /\ \A i \in ing[r].skipped :
               FileChecksum(ing[r].listing[i].bytes) \in ing[r].ingested_hashes
        /\ \A c \in store : c.id[1] = r => c.file_hash \notin ing[r].ingested_hashes
        /\ ing[r].pc = "chunks" => ing[r].fhash \notin ing[r].ingested_hashes

\* C16 witness: both runs read the empty set of hashes before either wrote
\* (the collection.get of each succeeded), and the store holds one chunk of one
\* file twice, once from each run.
C16_Witness ==
    /\ \A r \in Runs : /\ ing[r].ingested_hashes = {} /\ ing[r].after = {}
                       /\ ~ing[r].get_failed
    /\ \E c1, c2 \in store :
           /\ c1.id[1] = 1 /\ c2.id[1] = 2
           /\ c1.file_hash = c2.file_hash
           /\ c1.source_file = c2.source_file
           /\ c1.page = c2.page /\ c1.segment_index = c2.segment_index
           /\ c1.chunk_index = c2.chunk_index
           /\ c1.document = c2.document

====
